---------------------------- MODULE Spec2Model ----------------------------
(***************************************************************************)
(* A model of typing_copilot: the error tracker (classification of mypy    *)
(* errors, minimum covering module sets, children-to-parent collapse, the  *)
(* per-module suppression builder) and the mypy runner's result protocol.  *)
(*                                                                         *)
(* Python strings are TLA+ strings; TLC evaluates Len, SubSeq and \o on    *)
(* them, so every string operation of the source is computed character by  *)
(* character, as Python computes it.                                       *)
(***************************************************************************)
EXTENDS Integers, Sequences, FiniteSets, TLC

VARIABLES
    \* name-set reducer (error_tracker.py:57-199)
    module_names,      \* the set handed to _find_minimum_covering_modules
    package_tree,      \* the importable package tree pkgutil walks
    covering,          \* result of _find_minimum_covering_modules
    covering_twice,    \* result of applying it to its own result
    collapse_input,    \* the set handed to _consider_replacing_child_modules_with_parent
    collapsed,         \* its result
    collapsed_twice,   \* result of applying it to its own result
    pc_reducer,        \* position of the reducer run
    \* fault classifier (error_tracker.py:81-99)
    error,             \* the MypyError handed to _get_error_setting_for_error
    error_setting,     \* its result
    pc_classifier,     \* position of the classifier run
    \* suppression-set builder (error_tracker.py:235-272)
    errors,            \* the list handed to get_1st_party_modules_and_suppressions
    suppressions,      \* its result
    suppressions_again,\* the result of a second run on the same list
    pc_builder,        \* position of the builder runs
    \* mypy runner (mypy_runner.py:75-102)
    returncode,        \* completed_process.returncode
    stdout,            \* completed_process.stdout
    mypy_errors,       \* result of get_mypy_errors_from_completed_process
    pc_runner,         \* position of the runner call
    \* line parser (mypy_runner.py:51-72)
    output_line,       \* the line handed to MypyError.from_mypy_output_line
    parsed,            \* its result
    pc_parser,         \* position of the parser call
    \* third-party modules (error_tracker.py:207-232)
    strict_errors,     \* the list handed to get_3rd_party_modules_missing_type_hints
    missing_type_hints,\* its result
    pc_imports,        \* position of that call
    \* module-name validation and the config block makers (validation.py,
    \* config_generation.py:42-57)
    name_to_validate,  \* the name handed to validate_module_name and the makers
    validation,        \* outcome of validate_module_name
    config_block,      \* result of a block maker
    pc_validation,     \* position of these calls
    \* own configuration (own_config.py:11-21)
    toml_content,      \* the parsed TOML handed to TypingCopilotConfig.from_toml
    own_config,        \* its result
    pc_toml,           \* position of that call
    \* pyproject.toml finder (own_config.py:24-37)
    file_system,       \* what each directory holds
    cwd,               \* the current working directory
    search_path,       \* the path handed to _find_pyproject_toml
    pyproject_path,    \* its result
    pc_finder,         \* position of that call
    \* the commands init and tighten (cli.py:226-426)
    command,           \* "init" or "tighten"
    overwrite,         \* --overwrite
    error_if_can_tighten,  \* --error-if-can-tighten
    mypy_ini_at_start, \* the mypy.ini file when the command starts: None, or its content
    mypy_ini,          \* the mypy.ini file now
    writes,            \* the contents written to mypy.ini, in order
    echoed,            \* the configurations echoed at line 415, in order
    typing_copilot_config, \* own_config
    first_run_errors,  \* errors of the lax baseline run (init), of the run under mypy.ini (tighten)
    cli_strict_errors, \* strict_errors
    final_config_components,
    final_config,
    validation_process,\* the completed process of the validation run
    cli_exit,          \* Returned(exit status), or the error the command died of
    pc_cli,            \* position of the command
    mypy_runs,         \* the runs of mypy the command made, in order, with their configs
    command_number,    \* 1 for the first command run, 2 for the one run after it
    unchanged_codebase,\* the code and pyproject.toml stay as they are between runs
    checker_memo,      \* on an unchanged codebase: what mypy gave for each configuration
    pyproject_seen,    \* on an unchanged codebase: what reading pyproject.toml came to
    \* the passes of _consider_replacing_child_modules_with_parent
    \* (error_tracker.py:150-199), one activation of the function at a time
    pass_input,        \* module_names of the outermost call
    pass_names,        \* module_names of the current activation
    pass_count,        \* the activations that ran
    pass_replaced,     \* the parents that replaced their children in some pass
    pass_outcome,      \* what the outermost call comes to
    pc_passes          \* position of the call

reducer_vars == <<module_names, covering, covering_twice,
                  collapse_input, collapsed, collapsed_twice, pc_reducer>>
classifier_vars == <<error, error_setting, pc_classifier>>
builder_vars == <<errors, suppressions, suppressions_again, pc_builder>>

runner_vars == <<returncode, stdout, mypy_errors, pc_runner>>
parser_vars == <<output_line, parsed, pc_parser>>

imports_vars == <<strict_errors, missing_type_hints, pc_imports>>

validation_vars == <<name_to_validate, validation, config_block, pc_validation>>

toml_vars == <<toml_content, own_config, pc_toml>>

finder_vars == <<file_system, cwd, search_path, pyproject_path, pc_finder>>

cli_vars == <<command, overwrite, error_if_can_tighten, mypy_ini_at_start, mypy_ini, writes,
              echoed, typing_copilot_config, first_run_errors, cli_strict_errors,
              final_config_components, final_config, validation_process, cli_exit, pc_cli,
              mypy_runs, command_number, unchanged_codebase, checker_memo, pyproject_seen>>

passes_vars == <<pass_input, pass_names, pass_count, pass_replaced, pass_outcome, pc_passes>>

\* The components added to the first four.
further_vars == <<parser_vars, imports_vars, validation_vars, toml_vars, finder_vars, cli_vars,
                  passes_vars>>

vars == <<package_tree, reducer_vars, classifier_vars, builder_vars, runner_vars,
          further_vars>>

\* What the actions of one component leave alone.
outside_reducer == <<classifier_vars, builder_vars, runner_vars, further_vars>>
outside_classifier == <<package_tree, reducer_vars, builder_vars, runner_vars, further_vars>>
outside_builder == <<reducer_vars, classifier_vars, runner_vars, further_vars>>
outside_runner == <<package_tree, reducer_vars, classifier_vars, builder_vars, further_vars>>
first_vars == <<package_tree, reducer_vars, classifier_vars, builder_vars, runner_vars>>
outside_parser == <<first_vars, imports_vars, validation_vars, toml_vars, finder_vars, cli_vars,
                    passes_vars>>
outside_imports == <<first_vars, parser_vars, validation_vars, toml_vars, finder_vars, cli_vars,
                     passes_vars>>
outside_validation == <<first_vars, parser_vars, imports_vars, toml_vars, finder_vars, cli_vars,
                        passes_vars>>
outside_toml == <<first_vars, parser_vars, imports_vars, validation_vars, finder_vars, cli_vars,
                  passes_vars>>
outside_finder == <<first_vars, parser_vars, imports_vars, validation_vars, toml_vars, cli_vars,
                    passes_vars>>
outside_cli == <<first_vars, parser_vars, imports_vars, validation_vars, toml_vars, finder_vars,
                 passes_vars>>
outside_cli_tree == <<reducer_vars, classifier_vars, builder_vars, runner_vars, parser_vars,
                      imports_vars, validation_vars, toml_vars, finder_vars, passes_vars>>
outside_passes == <<reducer_vars, classifier_vars, builder_vars, runner_vars, parser_vars,
                    imports_vars, validation_vars, toml_vars, finder_vars, cli_vars>>

(***************************************************************************)
(* Bounds of the model.                                                    *)
(***************************************************************************)
MaxModules == 3
MaxErrors == 2
MaxErrorLines == 2
MaxNameLen == 4
MaxOptions == 2
MaxDepth == 2

(***************************************************************************)
(* Python str operations.                                                  *)
(***************************************************************************)
\* The printable ASCII characters 32..95 and 97..126, in code-point order.
AsciiLow == " !\"#$%&'()*+,-./0123456789:;<=>?@ABCDEFGHIJKLMNOPQRSTUVWXYZ[\\]^_"
AsciiHigh == "abcdefghijklmnopqrstuvwxyz{|}~"

CharAt(s, i) == SubSeq(s, i, i)

\* ord(c): the code point Python compares strings by.
Ord(c) ==
    IF c = "\n" THEN 10
    ELSE IF \E i \in 1..Len(AsciiLow) : CharAt(AsciiLow, i) = c
         THEN 31 + (CHOOSE i \in 1..Len(AsciiLow) : CharAt(AsciiLow, i) = c)
         ELSE 96 + (CHOOSE i \in 1..Len(AsciiHigh) : CharAt(AsciiHigh, i) = c)

MinOf(S) == CHOOSE x \in S : \A y \in S : x <= y
MaxOf(S) == CHOOSE x \in S : \A y \in S : x >= y

\* a < b on str: lexicographic by code point, a proper prefix sorts first.
StrLess(a, b) ==
    LET n == IF Len(a) < Len(b) THEN Len(a) ELSE Len(b)
        diff == {i \in 1..n : CharAt(a, i) # CharAt(b, i)}
    IN  IF diff = {} THEN Len(a) < Len(b)
        ELSE Ord(CharAt(a, MinOf(diff))) < Ord(CharAt(b, MinOf(diff)))

\* s.startswith(prefix)
StartsWith(s, prefix) ==
    Len(prefix) <= Len(s) /\ SubSeq(s, 1, Len(prefix)) = prefix

\* s.endswith(suffix)
EndsWith(s, suffix) ==
    Len(suffix) <= Len(s) /\ SubSeq(s, Len(s) - Len(suffix) + 1, Len(s)) = suffix

\* sub in s
Contains(s, sub) ==
    \/ Len(sub) = 0
    \/ \E i \in 1..(Len(s) - Len(sub) + 1) : SubSeq(s, i, i + Len(sub) - 1) = sub

\* s.split(sep) for a one-character separator
Split(s, sep) ==
    LET at == {i \in 1..Len(s) : CharAt(s, i) = sep}
        \* the k-th separator, the ends of s standing for one before and after
        nth(k) == IF k = 0 THEN 0
                  ELSE IF k > Cardinality(at) THEN Len(s) + 1
                  ELSE CHOOSE i \in at : Cardinality({j \in at : j < i}) = k - 1
    IN  [k \in 1..(Cardinality(at) + 1) |-> SubSeq(s, nth(k - 1) + 1, nth(k) - 1)]

\* sep.join(parts)
RECURSIVE Join(_, _)
Join(parts, sep) ==
    IF Len(parts) = 0 THEN ""
    ELSE IF Len(parts) = 1 THEN parts[1]
    ELSE parts[1] \o sep \o Join(Tail(parts), sep)

\* Faulty variant of Sorted: sorted(names, reverse=True).
RECURSIVE Sorted_descending(_)
Sorted_descending(names) ==
    IF names = {} THEN <<>>
    ELSE LET first == CHOOSE x \in names : \A y \in names \ {x} : StrLess(y, x)
         IN  <<first>> \o Sorted_descending(names \ {first})

\* sorted(names): ascending by str comparison
RECURSIVE Sorted(_)
Sorted(names) ==
    IF names = {} THEN <<>>
    ELSE LET first == CHOOSE x \in names : \A y \in names \ {x} : StrLess(x, y)
         IN  <<first>> \o Sorted(names \ {first})

(***************************************************************************)
(* _find_minimum_covering_modules (error_tracker.py:57-78).                *)
(***************************************************************************)
\* Faulty variant of ProperAncestors: only the immediate parent is tested.
ProperAncestors_parent_only(module_name) ==
    LET module_path == Split(module_name, ".")
    IN  {Join(SubSeq(module_path, 1, num_components), ".") :
             num_components \in {Len(module_path) - 1} \ {0}}

\* The ancestors the inner loop tests: ".".join(module_path[:k]), k in 1..len-1.
ProperAncestors(module_name) ==
    LET module_path == Split(module_name, ".")
    IN  {Join(SubSeq(module_path, 1, num_components), ".") :
             num_components \in 1..(Len(module_path) - 1)}

\* Faulty variant of CoveringLoop: an uncovered name adds the loop's leftover
\* ancestor_module_name (its immediate parent) instead of module_name.
RECURSIVE CoveringLoop_adds_ancestor(_, _)
CoveringLoop_adds_ancestor(sorted_module_names, module_prefixes) ==
    IF Len(sorted_module_names) = 0 THEN module_prefixes
    ELSE LET module_name == Head(sorted_module_names)
             module_path == Split(module_name, ".")
             covered == \E ancestor_module_name \in ProperAncestors(module_name) :
                            ancestor_module_name \in module_prefixes
             added == IF Len(module_path) = 1 THEN module_name
                      ELSE Join(SubSeq(module_path, 1, Len(module_path) - 1), ".")
         IN  CoveringLoop_adds_ancestor(Tail(sorted_module_names),
                          IF covered THEN module_prefixes
                          ELSE module_prefixes \cup {added})

\* Faulty variant of CoveringLoop: the ancestor test is a plain str.startswith.
RECURSIVE CoveringLoop_startswith(_, _)
CoveringLoop_startswith(sorted_module_names, module_prefixes) ==
    IF Len(sorted_module_names) = 0 THEN module_prefixes
    ELSE LET module_name == Head(sorted_module_names)
             covered == \E accepted \in module_prefixes :
                            StartsWith(module_name, accepted)
         IN  CoveringLoop_startswith(Tail(sorted_module_names),
                          IF covered THEN module_prefixes
                          ELSE module_prefixes \cup {module_name})

\* The loop over sorted_module_names, module_prefixes being the names accepted.
RECURSIVE CoveringLoop(_, _)
CoveringLoop(sorted_module_names, module_prefixes) ==
    IF Len(sorted_module_names) = 0 THEN module_prefixes
    ELSE LET module_name == Head(sorted_module_names)
             covered == \E ancestor_module_name \in ProperAncestors(module_name) :
                            ancestor_module_name \in module_prefixes
         IN  CoveringLoop(Tail(sorted_module_names),
                          IF covered THEN module_prefixes
                          ELSE module_prefixes \cup {module_name})

_find_minimum_covering_modules(names) ==
    CoveringLoop(Sorted(names), {})

(***************************************************************************)
(* The package tree and _get_child_module_names_for_module                 *)
(* (error_tracker.py:139-147).  A tree names the modules pkgutil finds     *)
(* and, among them, the packages (the modules that have a __path__).       *)
(***************************************************************************)
\* importlib.import_module(name) succeeds and the module has a __path__.
IsImportablePackage(tree, module_name) == module_name \in tree.packages

\* pkgutil.walk_packages(module.__path__, module_name + "."): every module
\* below the package, at any depth, walking down through packages only.
_get_child_module_names_for_module(tree, module_name) ==
    {m \in tree.modules :
        /\ module_name \in ProperAncestors(m)
        /\ \A a \in ProperAncestors(m) :
              (module_name \in ProperAncestors(a)) => a \in tree.packages}

(***************************************************************************)
(* _consider_replacing_child_modules_with_parent (error_tracker.py:150-199)*)
(***************************************************************************)
\* module_name.rsplit(".", 1)[0]
ParentOf(module_name) ==
    LET at == {i \in 1..Len(module_name) : CharAt(module_name, i) = "."}
    IN  SubSeq(module_name, 1, MaxOf(at) - 1)

\* error_tracker.py:164-169
ParentlessModuleNames(names) == {m \in names : ~Contains(m, ".")}
ModuleNameToParent(names) ==
    [m \in names \ ParentlessModuleNames(names) |-> ParentOf(m)]
ParentNames(names) ==
    {ModuleNameToParent(names)[m] : m \in DOMAIN ModuleNameToParent(names)}

\* error_tracker.py:173-180: the walked names of the parent minus the input
\* names whose immediate parent it is.
UnseenChildModules(tree, names, parent_name) ==
    _get_child_module_names_for_module(tree, parent_name)
        \ {m \in DOMAIN ModuleNameToParent(names) :
               ModuleNameToParent(names)[m] = parent_name}

\* Faulty variant of CollapsePass: the children a parent replaces are kept
\* beside it.
CollapsePass_keeps_children(tree, names) ==
    names \cup {p \in ParentNames(names) : UnseenChildModules(tree, names, p) = {}}

\* Faulty variant of CollapsePass: final_modules starts empty instead of holding the
\* parentless module names.
CollapsePass_drops_parentless(tree, names) ==
    {p \in ParentNames(names) : UnseenChildModules(tree, names, p) = {}}
      \cup {m \in DOMAIN ModuleNameToParent(names) :
               UnseenChildModules(tree, names, ModuleNameToParent(names)[m]) # {}}

\* One pass, error_tracker.py:182-193.
CollapsePass(tree, names) ==
    ParentlessModuleNames(names)
      \cup {p \in ParentNames(names) : UnseenChildModules(tree, names, p) = {}}
      \cup {m \in DOMAIN ModuleNameToParent(names) :
               UnseenChildModules(tree, names, ModuleNameToParent(names)[m]) # {}}

\* The pass raises when a parent cannot be imported as a package (line 140, 143).
PassRaises(tree, names) ==
    \E p \in ParentNames(names) : ~IsImportablePackage(tree, p)

\* The outcome of a call: it raised, or it returned a value.
Raised == [raised |-> TRUE]
Returned(v) == [raised |-> FALSE, value |-> v]
\* The placeholder of a result before the call is made.
Pending == [pending |-> TRUE]
\* The call raised the named exception.
RaisedError(exception) == [raised |-> TRUE, exception |-> exception]

\* Faulty variant of _consider_replacing_child_modules_with_parent: one pass, returned
\* without running to convergence.
_consider_replacing_single_pass(tree, names) ==
    IF PassRaises(tree, names) THEN Raised
    ELSE Returned(CollapsePass(tree, names))

RECURSIVE _consider_replacing_child_modules_with_parent(_, _)
_consider_replacing_child_modules_with_parent(tree, names) ==
    IF PassRaises(tree, names) THEN Raised
    ELSE LET result == CollapsePass(tree, names)
         IN  IF result = names THEN Returned(result)
             ELSE _consider_replacing_child_modules_with_parent(tree, result)

(***************************************************************************)
(* validate_module_name (validation.py:4-20).                              *)
(***************************************************************************)
\* string.ascii_letters + string.digits + "_" + "."
ExpectedChars == "abcdefghijklmnopqrstuvwxyzABCDEFGHIJKLMNOPQRSTUVWXYZ0123456789_."

\* validate_module_name(module_name) returns (does not raise).
validate_module_name(module_name) ==
    /\ \A i \in 1..Len(module_name) : Contains(ExpectedChars, CharAt(module_name, i))
    /\ ~(StartsWith(module_name, ".") \/ EndsWith(module_name, "."))

(***************************************************************************)
(* The fault classifier (error_tracker.py:22-54, 81-99).                   *)
(***************************************************************************)
MypyError(file_path, line_number, error_code, message) ==
    [file_path |-> file_path, line_number |-> line_number,
     error_code |-> error_code, message |-> message]

Setting(flag_name, value) == <<flag_name, value>>

_warn_unused_ignores_error_setting == Setting("warn_unused_ignores", FALSE)
_remaining_error_setting == Setting("check_untyped_defs", FALSE)

\* Each sub-table is a dict: its (substring, setting) items in insertion order.
_code_and_message_to_error_setting ==
    ("misc" :> <<
        <<"error: Untyped decorator", Setting("disallow_untyped_decorators", FALSE)>>,
        <<"", _remaining_error_setting>> >>)
    @@ ("no-untyped-def" :> <<
        <<"error: Function is missing a type annotation for one or more arguments",
          Setting("disallow_incomplete_defs", FALSE)>>,
        <<"error: Function is missing a type annotation",
          Setting("disallow_untyped_defs", FALSE)>>,
        <<"", Setting("disallow_incomplete_defs", FALSE)>> >>)
    @@ ("no-untyped-call" :> <<
        <<"", Setting("disallow_untyped_calls", FALSE)>> >>)
    @@ ("" :> <<
        <<"error: unused 'type: ignore' comment", _warn_unused_ignores_error_setting>> >>)

\* The dict's items in insertion order: (dependent setting, its dependencies).
_settings_that_require_other_settings ==
    << <<Setting("disallow_incomplete_defs", FALSE),
         {Setting("disallow_untyped_defs", FALSE)}>> >>

\* Returned(setting), or Raised when no substring of a recognized code's
\* sub-table is in the message (the AssertionError of line 93).
_get_error_setting_for_error(err) ==
    IF err.error_code \notin DOMAIN _code_and_message_to_error_setting
    THEN Returned(_remaining_error_setting)
    ELSE LET possible_error_settings == _code_and_message_to_error_setting[err.error_code]
             matching == {i \in 1..Len(possible_error_settings) :
                              Contains(err.message, possible_error_settings[i][1])}
         IN  IF matching = {} THEN Raised
             ELSE Returned(possible_error_settings[MinOf(matching)][2])

(***************************************************************************)
(* _get_module_for_error (error_tracker.py:102-136).                       *)
(***************************************************************************)
known_python_extensions == {".py", ".pyo", ".pyx", ".pyc"}

\* The orders in which a run may iterate over the set known_python_extensions.
ExtensionOrders ==
    {order \in [1..Cardinality(known_python_extensions) -> known_python_extensions] :
        \A i, j \in DOMAIN order : order[i] = order[j] => i = j}

\* os.sep
os_sep == "/"

\* error_tracker.py:117-119, with the extensions in the order iterated.
RECURSIVE StripExtensions(_, _)
StripExtensions(error_in_file, extensions) ==
    IF Len(extensions) = 0 THEN error_in_file
    ELSE StripExtensions(
             IF EndsWith(error_in_file, Head(extensions))
             THEN SubSeq(error_in_file, 1, Len(error_in_file) - Len(Head(extensions)))
             ELSE error_in_file,
             Tail(extensions))

\* error_tracker.py:129-132: suffixes_to_strip holds "__init__" alone.
StripInitSuffix(error_in_file) ==
    IF EndsWith(error_in_file, "__init__")
    THEN SubSeq(error_in_file, 1, Len(error_in_file) - Len("__init__"))
    ELSE error_in_file

\* s.strip(c) for a one-character c
RECURSIVE StripChar(_, _)
StripChar(s, c) ==
    IF Len(s) > 0 /\ CharAt(s, 1) = c THEN StripChar(SubSeq(s, 2, Len(s)), c)
    ELSE IF Len(s) > 0 /\ CharAt(s, Len(s)) = c
         THEN StripChar(SubSeq(s, 1, Len(s) - 1), c)
    ELSE s

\* s.replace(old, new) for a one-character old
ReplaceChar(s, old, new) == Join(Split(s, old), new)

\* Returned(module_name), or Raised by line 122 or by validate_module_name.
_get_module_for_error(err, extension_order) ==
    LET error_in_file == StripExtensions(err.file_path, extension_order)
        module_name == ReplaceChar(StripChar(StripInitSuffix(error_in_file), os_sep),
                                   os_sep, ".")
    IN  IF Contains(error_in_file, ".") THEN Raised
        ELSE IF ~validate_module_name(module_name) THEN Raised
        ELSE Returned(module_name)

(***************************************************************************)
(* get_1st_party_modules_and_suppressions (error_tracker.py:235-272).      *)
(* A dict is the sequence of its items, in insertion order.                *)
(***************************************************************************)
DictKeys(d) == {d[i][1] : i \in 1..Len(d)}
DictGet(d, key) == d[CHOOSE i \in 1..Len(d) : d[i][1] = key][2]
\* d[key] = value, a new key going last
DictPut(d, key, value) ==
    IF key \in DictKeys(d)
    THEN [i \in 1..Len(d) |-> IF d[i][1] = key THEN <<key, value>> ELSE d[i]]
    ELSE Append(d, <<key, value>>)

\* line 238
NonImportErrors(errs) == SelectSeq(errs, LAMBDA e : e.error_code # "import")

\* lines 240-245: Returned(needed_setting_to_modules), or Raised as soon as
\* an error cannot be classified or has no module name.
RECURSIVE NeededSettingToModules(_, _, _)
NeededSettingToModules(non_import_errors, extension_order, needed) ==
    IF Len(non_import_errors) = 0 THEN Returned(needed)
    ELSE LET err == Head(non_import_errors)
             setting == _get_error_setting_for_error(err)
             module == _get_module_for_error(err, extension_order)
         IN  IF setting.raised \/ module.raised THEN Raised
             ELSE NeededSettingToModules(
                      Tail(non_import_errors), extension_order,
                      DictPut(needed, setting.value,
                              (IF setting.value \in DictKeys(needed)
                               THEN DictGet(needed, setting.value) ELSE {})
                                  \cup {module.value}))

\* lines 248-254: the modules of a dependent setting are added to each of its
\* dependencies that is already a key of needed_setting_to_modules.
RECURSIVE ApplyDependencies(_, _)
ApplyDependencies(requirements, needed) ==
    IF Len(requirements) = 0 THEN needed
    ELSE LET dependent_setting == Head(requirements)[1]
             dependencies == Head(requirements)[2]
         IN  ApplyDependencies(
                 Tail(requirements),
                 IF dependent_setting \notin DictKeys(needed) THEN needed
                 ELSE [i \in 1..Len(needed) |->
                          IF needed[i][1] \in dependencies
                          THEN <<needed[i][1],
                                 needed[i][2] \cup DictGet(needed, dependent_setting)>>
                          ELSE needed[i]])

\* lines 257-262: each setting's modules, reduced and then collapsed.
MinimumCoveringModules(tree, needed) ==
    [i \in 1..Len(needed) |->
        <<needed[i][1],
          _consider_replacing_child_modules_with_parent(
              tree, _find_minimum_covering_modules(needed[i][2]))>>]

\* (flag_name, value) < (flag_name, value) on tuples; False < True.
SettingLess(a, b) ==
    \/ StrLess(a[1], b[1])
    \/ a[1] = b[1] /\ a[2] = FALSE /\ b[2] = TRUE

\* Faulty variant of SortSettings: the list is left in the order of its appends.
SortSettings_missing(error_settings) == error_settings

\* line 270: error_settings.sort(), ascending and stable.
RECURSIVE SortSettings(_)
SortSettings(error_settings) ==
    IF Len(error_settings) <= 1 THEN error_settings
    ELSE LET rest == SortSettings(Tail(error_settings))
             x == Head(error_settings)
             before == {i \in 1..Len(rest) : SettingLess(rest[i], x)}
             k == IF before = {} THEN 0 ELSE MaxOf(before)
         IN  SubSeq(rest, 1, k) \o <<x>> \o SubSeq(rest, k + 1, Len(rest))

\* lines 264-270: module -> the settings whose reduced set holds it, appended
\* in the dicts' order and then sorted.
ModuleToErrorSettings(minimum) ==
    [module_name \in UNION {minimum[i][2].value : i \in 1..Len(minimum)} |->
        SortSettings(
            LET holds == SelectSeq(minimum, LAMBDA item : module_name \in item[2].value)
            IN  [i \in 1..Len(holds) |-> holds[i][1]])]

get_1st_party_modules_and_suppressions(errs, tree, extension_order) ==
    LET needed == NeededSettingToModules(NonImportErrors(errs), extension_order, <<>>)
    IN  IF needed.raised THEN Raised
        ELSE LET minimum == MinimumCoveringModules(
                                tree,
                                ApplyDependencies(_settings_that_require_other_settings,
                                                  needed.value))
             IN  IF \E i \in 1..Len(minimum) : minimum[i][2].raised THEN Raised
                 ELSE Returned(ModuleToErrorSettings(minimum))

(***************************************************************************)
(* MypyError.from_mypy_output_line (mypy_runner.py:51-72).                 *)
(***************************************************************************)
\* The characters str.strip() removes, among those of the model.
Whitespace == {" ", "\t", "\n", "\r", "\f"}

RECURSIVE LStrip(_)
LStrip(s) ==
    IF Len(s) > 0 /\ CharAt(s, 1) \in Whitespace THEN LStrip(SubSeq(s, 2, Len(s)))
    ELSE s

\* s.rstrip()
RECURSIVE RStrip(_)
RStrip(s) ==
    IF Len(s) > 0 /\ CharAt(s, Len(s)) \in Whitespace
    THEN RStrip(SubSeq(s, 1, Len(s) - 1))
    ELSE s

\* s.strip()
Strip(s) == LStrip(RStrip(s))

\* s.split(sep, maxsplit) for a one-character separator
RECURSIVE SplitMax(_, _, _)
SplitMax(s, sep, maxsplit) ==
    LET at == {i \in 1..Len(s) : CharAt(s, i) = sep}
    IN  IF maxsplit = 0 \/ at = {} THEN <<s>>
        ELSE <<SubSeq(s, 1, MinOf(at) - 1)>>
                 \o SplitMax(SubSeq(s, MinOf(at) + 1, Len(s)), sep, maxsplit - 1)

\* s.rsplit(sep, 1) for a one-character separator that occurs in s
RSplitOnce(s, sep) ==
    LET at == MaxOf({i \in 1..Len(s) : CharAt(s, i) = sep})
    IN  <<SubSeq(s, 1, at - 1), SubSeq(s, at + 1, Len(s))>>

Digits == "0123456789"
DigitValue(c) == (CHOOSE i \in 1..Len(Digits) : CharAt(Digits, i) = c) - 1

\* int(s) accepts s: an optional sign, then digits, single underscores
\* allowed between digits, surrounding whitespace ignored.
IsIntLiteral(s) ==
    LET t == Strip(s)
        body == IF Len(t) > 0 /\ CharAt(t, 1) \in {"+", "-"} THEN SubSeq(t, 2, Len(t))
                ELSE t
    IN  /\ Len(body) > 0
        /\ \A i \in 1..Len(body) :
              \/ Contains(Digits, CharAt(body, i))
              \/ /\ CharAt(body, i) = "_"
                 /\ 1 < i /\ i < Len(body)
                 /\ Contains(Digits, CharAt(body, i - 1))
                 /\ Contains(Digits, CharAt(body, i + 1))

RECURSIVE DigitsValue(_, _)
DigitsValue(body, acc) ==
    IF Len(body) = 0 THEN acc
    ELSE DigitsValue(SubSeq(body, 2, Len(body)),
                     IF CharAt(body, 1) = "_" THEN acc
                     ELSE 10 * acc + DigitValue(CharAt(body, 1)))

\* int(s), for an s that int accepts
IntOf(s) ==
    LET t == Strip(s)
    IN  IF CharAt(t, 1) = "-" THEN 0 - DigitsValue(SubSeq(t, 2, Len(t)), 0)
        ELSE IF CharAt(t, 1) = "+" THEN DigitsValue(SubSeq(t, 2, Len(t)), 0)
        ELSE DigitsValue(t, 0)

\* from_mypy_output_line returned None.
None == [none |-> TRUE]

\* Returned(MypyError), Returned(None) for a note, or ValueError raised by the
\* unpacking of line 53 or by int() at line 55.
from_mypy_output_line(line) ==
    LET parts == SplitMax(line, ":", 2)
    IN  IF Len(parts) # 3 THEN RaisedError("ValueError")
        ELSE IF ~IsIntLiteral(parts[2]) THEN RaisedError("ValueError")
        ELSE LET file_path == Strip(parts[1])
                 line_number == IntOf(parts[2])
                 rest_of_line == Strip(parts[3])
             IN  IF StartsWith(rest_of_line, "note:") THEN Returned(None)
                 ELSE IF ~Contains(rest_of_line, "[")
                 THEN Returned(MypyError(file_path, line_number, "", rest_of_line))
                 ELSE Returned(MypyError(
                          file_path, line_number,
                          RStrip(StripChar(Strip(RSplitOnce(rest_of_line, "[")[2]), "]")),
                          Strip(RSplitOnce(rest_of_line, "[")[1])))

(***************************************************************************)
(* get_mypy_errors_from_completed_process (mypy_runner.py:75-102).         *)
(***************************************************************************)
\* line 78
OutputLines(out) == Split(Strip(out), "\n")

\* Faulty variant of IsErrorSummary: "or" in the place of "and".
IsErrorSummary_or(last_line) ==
    StartsWith(last_line, "Found ") \/ Contains(last_line, " error")

\* line 85: the last line is mypy's error summary.
IsErrorSummary(last_line) ==
    StartsWith(last_line, "Found ") /\ Contains(last_line, " error")

\* lines 92-97: the lines parsed in order, the notes left out.
ParsedErrors(error_lines) ==
    IF \E i \in 1..Len(error_lines) : from_mypy_output_line(error_lines[i]).raised
    THEN RaisedError("ValueError")
    ELSE Returned(
             LET values == [i \in 1..Len(error_lines) |->
                               from_mypy_output_line(error_lines[i]).value]
             IN  SelectSeq(values, LAMBDA value : value # None))

get_mypy_errors_from_completed_process(code, out) ==
    LET output_lines == OutputLines(out)
        last_line == output_lines[Len(output_lines)]
    IN  IF code = 0
        THEN IF ~StartsWith(last_line, "Success: no issues found")
             THEN RaisedError("AssertionError")
             ELSE Returned(<<>>)
        ELSE IF code = 1
        THEN IF ~IsErrorSummary(last_line)
             THEN RaisedError("AssertionError")
             ELSE ParsedErrors(SubSeq(output_lines, 1, Len(output_lines) - 1))
        ELSE RaisedError("AssertionError")

(***************************************************************************)
(* get_3rd_party_modules_missing_type_hints (error_tracker.py:13-20 and    *)
(* 207-232).                                                               *)
(***************************************************************************)
\* The character class [a-zA-Z0-9_\.] of both patterns.
PatternNameChars == "abcdefghijklmnopqrstuvwxyzABCDEFGHIJKLMNOPQRSTUVWXYZ0123456789_."

\* The character class of both patterns for the quotes around the name.
PatternQuotes == {"\"", "'"}

\* The longest run of name characters at the start of s: what the greedy
\* ([a-zA-Z0-9_\.]+) takes. No shorter run can match, since the next
\* pattern element is a quote and a shorter run is followed by a name
\* character.
RECURSIVE NameRun(_)
NameRun(s) ==
    IF Len(s) > 0 /\ Contains(PatternNameChars, CharAt(s, 1))
    THEN CharAt(s, 1) \o NameRun(SubSeq(s, 2, Len(s)))
    ELSE ""

\* pattern.match(message) for a pattern  before ["']([a-zA-Z0-9_\.]+)["'] after:
\* anchored at the start of the message and not at its end. None, or the
\* match with its group(1).
PatternMatch(before, after, message) ==
    IF ~StartsWith(message, before) THEN None
    ELSE LET quoted == SubSeq(message, Len(before) + 1, Len(message))
             name == NameRun(SubSeq(quoted, 2, Len(quoted)))
             closing == SubSeq(quoted, Len(name) + 2, Len(quoted))
         IN  IF /\ Len(quoted) > 0
                /\ CharAt(quoted, 1) \in PatternQuotes
                /\ Len(name) > 0
                /\ Len(closing) > 0
                /\ CharAt(closing, 1) \in PatternQuotes
                /\ StartsWith(SubSeq(closing, 2, Len(closing)), after)
             THEN [group1 |-> name]
             ELSE None

\* Faulty variant of _module_missing_type_hint_pattern: the pattern is
\* searched for anywhere after a marker of any kind (re.search in the place
\* of re.match, for the messages of the model).
_module_missing_type_hint_search(message) ==
    IF PatternMatch("error: Skipping analyzing ",
                    ": found module but no type hints or library stubs", message) # None
    THEN PatternMatch("error: Skipping analyzing ",
                      ": found module but no type hints or library stubs", message)
    ELSE PatternMatch("Skipping analyzing ",
                      ": found module but no type hints or library stubs", message)

\* lines 13-16
_module_missing_type_hint_pattern(message) ==
    PatternMatch("error: Skipping analyzing ",
                 ": found module but no type hints or library stubs", message)

\* lines 17-20
_module_missing_implementation_or_library_stub_pattern(message) ==
    PatternMatch("error: Cannot find implementation or library stub for module named ",
                 "", message)

\* line 208
ImportErrors(errs) == SelectSeq(errs, LAMBDA err : err.error_code = "import")

\* lines 212-217: the match the loop ends up with for one import error.
ModuleNameMatch(import_error) ==
    IF _module_missing_type_hint_pattern(import_error.message) # None
    THEN _module_missing_type_hint_pattern(import_error.message)
    ELSE _module_missing_implementation_or_library_stub_pattern(import_error.message)

get_3rd_party_modules_missing_type_hints(errs) ==
    LET import_errors == ImportErrors(errs)
    IN  IF \E i \in 1..Len(import_errors) : ModuleNameMatch(import_errors[i]) = None
        THEN RaisedError("AssertionError")
        ELSE Returned(_find_minimum_covering_modules(
                 {ModuleNameMatch(import_errors[i]).group1 : i \in 1..Len(import_errors)}))

(***************************************************************************)
(* The config block makers (config_generation.py:42-57).                   *)
(***************************************************************************)
\* str(value) of a bool, as the f-strings format it.
BoolStr(value) == IF value THEN "True" ELSE "False"

make_ignore_missing_imports_block(module_name) ==
    IF ~validate_module_name(module_name) THEN RaisedError("AssertionError")
    ELSE Returned("\n[mypy-" \o module_name \o ".*]\nignore_missing_imports = True\n")

\* line 55
RuleLines(rules) == [i \in 1..Len(rules) |-> rules[i][1] \o " = " \o BoolStr(rules[i][2])]

make_1st_party_module_rule_block(module_name, rules) ==
    IF ~validate_module_name(module_name) THEN RaisedError("AssertionError")
    ELSE Returned("\n[mypy-" \o module_name \o ".*]\n"
                      \o Join(RuleLines(rules), "\n") \o "\n")

(***************************************************************************)
(* TypingCopilotConfig (own_config.py:11-21).                              *)
(***************************************************************************)
\* What toml.load returns: a dict of keys to booleans, strings, lists and
\* dicts. A dict is the sequence of its (key, value) items.
TomlBool(b) == [bool |-> b]
TomlStr(text) == [str |-> text]
TomlList(values) == [list |-> values]
TomlTable(items) == [table |-> items]

\* The dataclass of lines 11-13.
TypingCopilotConfig(mypy_global_config) == [mypy_global_config |-> mypy_global_config]

\* lines 15-17: the body of from_toml is "pass", so the call returns None
\* whatever the content.
from_toml(content) == None

\* lines 19-21
empty == TypingCopilotConfig(TomlTable(<<>>))

(***************************************************************************)
(* _find_pyproject_toml (own_config.py:24-37).                             *)
(***************************************************************************)
\* A pathlib.Path: its components below its anchor, which is the root "/"
\* for an absolute path. A relative path is relative to cwd.
Path(parts) == [absolute |-> TRUE, parts |-> parts]
RelativePath(parts) == [absolute |-> FALSE, parts |-> parts]

\* path / name
ChildPath(path, name) == [path EXCEPT !.parts = Append(path.parts, name)]

\* The ".." components folded into the components before them; the parent
\* of the root is the root.
RECURSIVE Normalised(_, _)
Normalised(done, parts) ==
    IF Len(parts) = 0 THEN done
    ELSE IF Head(parts) = ".."
    THEN Normalised(IF Len(done) = 0 THEN done ELSE SubSeq(done, 1, Len(done) - 1),
                    Tail(parts))
    ELSE Normalised(Append(done, Head(parts)), Tail(parts))

\* line 25: search_path.resolve() in a file system without symbolic links:
\* the path made absolute from cwd, its ".." components folded.
Resolve(working_directory, path) ==
    Path(Normalised(<<>>, IF path.absolute THEN path.parts
                          ELSE working_directory.parts \o path.parts))

\* The directories of the modelled file systems, one inside the other.
DirectoryChain == <<"home", "project", "src", "package", "tests">>

\* What a directory of the file system holds under a name: "file", "dir" or
\* "none". The file system is a sequence: entry k describes the directory
\* made of the first k - 1 components of DirectoryChain; every other
\* directory is empty.
EntryKind(fs, path, name) ==
    IF Len(path.parts) < Len(fs) /\ path.parts = SubSeq(DirectoryChain, 1, Len(path.parts))
    THEN fs[Len(path.parts) + 1][name]
    ELSE "none"

\* Path.is_file(), Path.is_dir() of path / name
IsFile(fs, path, name) == EntryKind(fs, path, name) = "file"
IsDir(fs, path, name) == EntryKind(fs, path, name) = "dir"

\* Faulty variant of SearchFrom: the project-root test comes before the
\* pyproject.toml test.
RECURSIVE SearchFrom_root_first(_, _)
SearchFrom_root_first(fs, current_path) ==
    IF IsDir(fs, current_path, ".git") \/ IsDir(fs, current_path, ".hg") THEN None
    ELSE IF IsFile(fs, current_path, "pyproject.toml")
    THEN ChildPath(current_path, "pyproject.toml")
    ELSE IF Len(current_path.parts) = 0 THEN None
    ELSE SearchFrom_root_first(
             fs, Path(SubSeq(current_path.parts, 1, Len(current_path.parts) - 1)))

\* lines 27-37: the loop over chain((resolved_path,), resolved_path.parents),
\* from current_path on.
RECURSIVE SearchFrom(_, _)
SearchFrom(fs, current_path) ==
    IF IsFile(fs, current_path, "pyproject.toml")
    THEN ChildPath(current_path, "pyproject.toml")
    ELSE IF IsDir(fs, current_path, ".git") \/ IsDir(fs, current_path, ".hg") THEN None
    ELSE IF Len(current_path.parts) = 0 THEN None
    ELSE SearchFrom(fs, Path(SubSeq(current_path.parts, 1, Len(current_path.parts) - 1)))

_find_pyproject_toml(fs, working_directory, path) ==
    SearchFrom(fs, Resolve(working_directory, path))

(***************************************************************************)
(* The baseline configurations (config_generation.py:8-39).                *)
(***************************************************************************)
\* The name and version of typing_copilot/__init__.py.
__package_name__ == "typing_copilot"
__version__ == "1.0"

\* The first line of every configuration the program writes.
AUTOGENERATED_LINE_PREFIX == "# Autogenerated by " \o __package_name__

STRICT_BASELINE_MYPY_CONFIG ==
    "\n# Autogenerated by " \o __package_name__ \o " v" \o __version__ \o "\n"
    \o "[mypy]\n"
    \o "no_implicit_optional = True\n"
    \o "strict_optional = True\n"
    \o "warn_redundant_casts = True\n"
    \o "check_untyped_defs = True\n"
    \o "disallow_untyped_calls = True\n"
    \o "disallow_incomplete_defs = True\n"
    \o "disallow_untyped_defs = True\n"
    \o "disallow_untyped_decorators = True\n"
    \o "ignore_missing_imports = False\n"

LAX_BASELINE_MYPY_CONFIG ==
    "\n# Autogenerated by " \o __package_name__ \o " v" \o __version__ \o "\n"
    \o "[mypy]\n"
    \o "no_implicit_optional = False\n"
    \o "strict_optional = False\n"
    \o "warn_redundant_casts = False\n"
    \o "check_untyped_defs = False\n"
    \o "disallow_untyped_calls = False\n"
    \o "disallow_incomplete_defs = False\n"
    \o "disallow_untyped_defs = False\n"
    \o "disallow_untyped_decorators = False\n"
    \o "ignore_missing_imports = True\n"

\* The baselines seeded with the own configuration. _get_own_config only
\* ever gives the empty configuration (from_toml returns None), for which
\* the seeded baseline is the baseline.
make_strict_baseline_mypy_config(config) == STRICT_BASELINE_MYPY_CONFIG
make_lax_baseline_mypy_config(config) == LAX_BASELINE_MYPY_CONFIG

\* lines 37-39
make_unused_ignores_config_line(unused_ignores_setting) ==
    "warn_unused_ignores = " \o BoolStr(unused_ignores_setting) \o "\n"

(***************************************************************************)
(* The commands' helpers (cli.py:36-213, 312-322).                         *)
(***************************************************************************)
\* The one element of a set of one: names a value that is computed once.
Only(set) == CHOOSE element \in set : TRUE

\* subprocess.CompletedProcess of a mypy run
CompletedProcess(code, out, err) == [returncode |-> code, stdout |-> out, stderr |-> err]

\* "".join(make_block(name) for name in sorted(names)): Raised when a block
\* maker raises.
JoinedBlocks(blocks) ==
    IF \E i \in 1..Len(blocks) : blocks[i].raised THEN Raised
    ELSE Returned(Join([i \in 1..Len(blocks) |-> blocks[i].value], ""))

\* lines 47-61
ThirdPartyModulesConfig(errs) ==
    LET Blocks(imported_modules_missing_type_hints) ==
            IF imported_modules_missing_type_hints.raised THEN Raised
            ELSE IF imported_modules_missing_type_hints.value = {} THEN Returned("")
            ELSE LET names == Sorted(imported_modules_missing_type_hints.value)
                     blocks == JoinedBlocks([i \in 1..Len(names) |->
                                   make_ignore_missing_imports_block(names[i])])
                 IN  IF blocks.raised THEN Raised
                     ELSE Returned("# Third-party module rule relaxations" \o blocks.value)
    IN  Only({Blocks(found) : found \in {get_3rd_party_modules_missing_type_hints(errs)}})

\* lines 63-76
FirstPartyModulesConfig(errs, tree, extension_order) ==
    LET Blocks(first_party_suppressions) ==
            IF first_party_suppressions.raised THEN Raised
            ELSE IF DOMAIN first_party_suppressions.value = {} THEN Returned("")
            ELSE LET names == Sorted(DOMAIN first_party_suppressions.value)
                     blocks == JoinedBlocks([i \in 1..Len(names) |->
                                   make_1st_party_module_rule_block(
                                       names[i], first_party_suppressions.value[names[i]])])
                 IN  IF blocks.raised THEN Raised
                     ELSE Returned("# First party per-module rule relaxations"
                                       \o blocks.value)
    IN  Only({Blocks(found) : found \in
                 {get_1st_party_modules_and_suppressions(errs, tree, extension_order)}})

\* Returned(the four components), or Raised when a call of lines 47-76 raises.
_make_strictest_mypy_config_components_from_errors(config, errs, tree, extension_order) ==
    LET Components(third, first) ==
            IF third.raised \/ first.raised THEN RaisedError("AssertionError")
            ELSE Returned(<<make_strict_baseline_mypy_config(config),
                            make_unused_ignores_config_line(TRUE),
                            first.value,
                            third.value>>)
    IN  Only({Components(third, first) :
                 third \in {ThirdPartyModulesConfig(errs)},
                 first \in {FirstPartyModulesConfig(errs, tree, extension_order)}})

\* lines 86-98
_generate_final_mypy_config_from_components(final_config_global, final_config_unused_ignores, final_config_first_party_modules, final_config_third_party_modules) ==
    Join(<<final_config_global \o final_config_unused_ignores,
           final_config_first_party_modules,
           final_config_third_party_modules>>, "\n\n")

\* Faulty variant of _generate_final_mypy_config_with_unused_ignore_suppression:
\* the unused-ignore line of the validated configuration is kept.
_generate_final_mypy_config_keeping_unused_ignores(components, unused_ignore_errors) ==
    IF Len(unused_ignore_errors) = 0 THEN RaisedError("AssertionError")
    ELSE Returned(_generate_final_mypy_config_from_components(
                      components[1], components[2], components[3], components[4]))

\* lines 101-124
_generate_final_mypy_config_with_unused_ignore_suppression(components, unused_ignore_errors) ==
    IF Len(unused_ignore_errors) = 0 THEN RaisedError("AssertionError")
    ELSE Returned(_generate_final_mypy_config_from_components(
                      components[1],
                      make_unused_ignores_config_line(FALSE),
                      components[3],
                      components[4]))

\* error_tracker.py:275-283: Returned(the unused ignore errors), or the
\* AssertionError of line 93 for the first error without a setting, which
\* its message shows.
find_unused_ignores(errs) ==
    LET failing == {i \in 1..Len(errs) : _get_error_setting_for_error(errs[i]).raised}
    IN  IF failing # {}
        THEN [raised |-> TRUE, exception |-> "AssertionError",
              diagnostics |-> {errs[MinOf(failing)]}]
        ELSE Returned(SelectSeq(errs, LAMBDA err :
                 _get_error_setting_for_error(err).value
                     = _warn_unused_ignores_error_setting))

\* The elements of a list, as set(list) holds them.
SetOf(list) == {list[i] : i \in 1..Len(list)}

\* lines 133-149, from the completed validation run on: Returned(the unused
\* ignore errors), or the error raised, the AssertionError of line 143
\* coming with the other errors, echoed at line 141, as its diagnostics.
_get_unused_ignore_errors_from_validation_run(completed_process) ==
    LET validation_run_errors == get_mypy_errors_from_completed_process(
                                     completed_process.returncode, completed_process.stdout)
    IN  IF validation_run_errors.raised THEN validation_run_errors
        ELSE LET unused_ignore_errors == find_unused_ignores(validation_run_errors.value)
             IN  IF unused_ignore_errors.raised THEN unused_ignore_errors
                 ELSE LET other_errors == SetOf(validation_run_errors.value)
                                              \ SetOf(unused_ignore_errors.value)
                      IN  IF other_errors # {}
                          THEN [raised |-> TRUE, exception |-> "AssertionError",
                                diagnostics |-> other_errors]
                          ELSE unused_ignore_errors

\* s.replace(old, new), for a non-empty old: the occurrences replaced from
\* the left, none overlapping another
RECURSIVE Replace(_, _, _)
Replace(s, old, new) ==
    LET at == {i \in 1..(Len(s) - Len(old) + 1) : SubSeq(s, i, i + Len(old) - 1) = old}
    IN  IF Len(old) = 0 \/ at = {} THEN s
        ELSE SubSeq(s, 1, MinOf(at) - 1) \o new
                 \o Replace(SubSeq(s, MinOf(at) + Len(old), Len(s)), old, new)

\* lines 152-179: Returned(<<the process to go on with, the config it ran>>),
\* rerun being the process of the run of line 178; or the AssertionError of
\* line 173.
_work_around_mypy_strict_optional_bug(completed_process, full_lax_config, rerun) ==
    IF completed_process.returncode # 2
    THEN Returned(<<completed_process, full_lax_config>>)
    ELSE IF ~Contains(completed_process.stderr, "INTERNAL ERROR")
    THEN Returned(<<completed_process, full_lax_config>>)
    ELSE IF ~Contains(full_lax_config, "strict_optional = False\n")
    THEN RaisedError("AssertionError")
    ELSE Returned(<<rerun, Replace(full_lax_config, "strict_optional = False\n",
                                   "strict_optional = True\n")>>)

\* lines 182-213: what reading pyproject.toml comes to. pyproject is None
\* when find_pyproject_toml finds no file, the name of the error raised by
\* open or toml.load, or the parsed content. Returned(the own config), or
\* Returned(1) under "exit" for sys.exit(1).
_get_own_config(pyproject) ==
    IF pyproject = None THEN [exit |-> FALSE, config |-> empty]
    ELSE IF pyproject \in {[error |-> "OSError"], [error |-> "TomlDecodeError"]}
    THEN [exit |-> TRUE, status |-> 1]
    ELSE IF from_toml(pyproject) # None THEN [exit |-> FALSE, config |-> from_toml(pyproject)]
    ELSE [exit |-> FALSE, config |-> empty]

\* lines 316-318: the lines of a config that are neither empty nor comments
ConfigLinesMinusComments(mypy_config) ==
    SelectSeq(Split(Strip(mypy_config), "\n"),
              LAMBDA config_line : config_line # "" /\ ~StartsWith(LStrip(config_line), "#"))

\* lines 312-322
_are_mypy_configs_equal(mypy_config_a, mypy_config_b) ==
    ConfigLinesMinusComments(mypy_config_a) = ConfigLinesMinusComments(mypy_config_b)

\* lines 348-352: the first line of the file that is not empty (the last
\* line when all are empty).
RECURSIVE FirstNonEmptyLine(_)
FirstNonEmptyLine(config) ==
    LET split_outputs == SplitMax(config, "\n", 1)
    IN  IF split_outputs[1] = "" /\ Len(split_outputs) > 1
        THEN FirstNonEmptyLine(split_outputs[2])
        ELSE split_outputs[1]

(***************************************************************************)
(* The end of tighten (cli.py:406-426).                                    *)
(***************************************************************************)
\* The mypy.ini file with a content.
File(content) == [content |-> content]

\* Faulty variant of TightenFinish: --error-if-can-tighten is not looked at.
TightenFinish_flag_ignored(current_config, tightest_config, flag) ==
    IF _are_mypy_configs_equal(current_config, tightest_config)
    THEN [status |-> 0, written |-> <<>>, echoed |-> <<>>]
    ELSE [status |-> 0, written |-> <<tightest_config>>, echoed |-> <<>>]

\* lines 406-426: the exit status, what is written to mypy.ini and what is
\* echoed of the final configuration.
TightenFinish(current_config, tightest_config, flag) ==
    IF _are_mypy_configs_equal(current_config, tightest_config)
    THEN [status |-> 0, written |-> <<>>, echoed |-> <<>>]
    ELSE IF flag
    THEN [status |-> 1, written |-> <<>>, echoed |-> <<tightest_config>>]
    ELSE [status |-> 0, written |-> <<tightest_config>>, echoed |-> <<>>]

(***************************************************************************)
(* The components at rest, for the specifications that do not run them.    *)
(***************************************************************************)
\* The importable package tree: its modules, and those that are packages.
Tree(modules, packages) == [modules |-> modules, packages |-> packages]

NoError == [file_path |-> "", line_number |-> 0, error_code |-> "", message |-> ""]

ReducerIdle ==
    /\ module_names = {}
    /\ covering = {}
    /\ covering_twice = {}
    /\ collapse_input = {}
    /\ collapsed = Pending
    /\ collapsed_twice = Pending
    /\ pc_reducer = "idle"

ClassifierIdle ==
    /\ error = NoError
    /\ error_setting = Pending
    /\ pc_classifier = "idle"

BuilderIdle ==
    /\ errors = <<>>
    /\ suppressions = Pending
    /\ suppressions_again = Pending
    /\ pc_builder = "idle"

RunnerIdle ==
    /\ returncode = 0
    /\ stdout = ""
    /\ mypy_errors = Pending
    /\ pc_runner = "idle"

ParserIdle ==
    /\ output_line = ""
    /\ parsed = Pending
    /\ pc_parser = "idle"

ImportsIdle ==
    /\ strict_errors = <<>>
    /\ missing_type_hints = Pending
    /\ pc_imports = "idle"

ValidationIdle ==
    /\ name_to_validate = ""
    /\ validation = Pending
    /\ config_block = Pending
    /\ pc_validation = "idle"

TomlIdle ==
    /\ toml_content = TomlTable(<<>>)
    /\ own_config = Pending
    /\ pc_toml = "idle"

FinderIdle ==
    /\ file_system = <<>>
    /\ cwd = Path(<<>>)
    /\ search_path = Path(<<>>)
    /\ pyproject_path = Pending
    /\ pc_finder = "idle"

CliIdle ==
    /\ command = "none"
    /\ overwrite = FALSE
    /\ error_if_can_tighten = FALSE
    /\ mypy_ini_at_start = None
    /\ mypy_ini = None
    /\ writes = <<>>
    /\ echoed = <<>>
    /\ typing_copilot_config = Pending
    /\ first_run_errors = Pending
    /\ cli_strict_errors = Pending
    /\ final_config_components = Pending
    /\ final_config = Pending
    /\ validation_process = Pending
    /\ cli_exit = Pending
    /\ pc_cli = "idle"
    /\ mypy_runs = <<>>
    /\ command_number = 0
    /\ unchanged_codebase = FALSE
    /\ checker_memo = <<>>
    /\ pyproject_seen = Pending

PassesIdle ==
    /\ pass_input = {}
    /\ pass_names = {}
    /\ pass_count = 0
    /\ pass_replaced = {}
    /\ pass_outcome = Pending
    /\ pc_passes = "idle"

\* The components added to the first four, at rest.
FurtherIdle ==
    /\ PassesIdle
    /\ ParserIdle
    /\ ImportsIdle
    /\ ValidationIdle
    /\ TomlIdle
    /\ FinderIdle
    /\ CliIdle

\* The first four components at rest.
FirstIdle ==
    /\ package_tree = Tree({}, {})
    /\ ReducerIdle
    /\ ClassifierIdle
    /\ BuilderIdle
    /\ RunnerIdle

(***************************************************************************)
(* The inputs of the reducer runs.                                         *)
(***************************************************************************)
ModuleNameUniverse ==
    {"p", "q", "pa", "p.a", "p.b", "p.ab", "q.a", "p.a.x", "p.a.y", "p.b.x",
     "p.a.x.z", "", "p..a"}

PackageTrees ==
    { \* p has exactly the submodules a and b
      Tree({"p", "p.a", "p.b"}, {"p"}),
      \* p.a is itself a package
      Tree({"p", "p.a", "p.b", "p.a.x"}, {"p", "p.a"}),
      Tree({"p", "p.a", "p.a.x", "p.a.y", "q", "q.a"}, {"p", "p.a", "q"}),
      \* p.a is a package whose modules pkgutil does not list
      Tree({"p", "p.a", "q"}, {"p", "p.a"}),
      Tree({"p", "p.a", "p.a.x", "p.a.x.z"}, {"p", "p.a", "p.a.x"}) }

InputSets == {s \in SUBSET ModuleNameUniverse : Cardinality(s) <= MaxModules}

\* The reducer before a run, with the set it is to be handed.
ReducerAt(names) ==
    /\ module_names = names
    /\ covering = {}
    /\ covering_twice = {}
    /\ collapse_input = {}
    /\ collapsed = Pending
    /\ collapsed_twice = Pending
    /\ pc_reducer = "start"

InitReducer ==
    /\ \E names \in InputSets : ReducerAt(names)
    /\ package_tree \in PackageTrees
    /\ ClassifierIdle
    /\ BuilderIdle
    /\ RunnerIdle
    /\ FurtherIdle

\* _find_minimum_covering_modules(module_names)
FindCovering ==
    /\ pc_reducer = "start"
    /\ covering' = _find_minimum_covering_modules(module_names)
    /\ pc_reducer' = "covered"
    /\ UNCHANGED <<module_names, package_tree, covering_twice, collapse_input,
                   collapsed, collapsed_twice, outside_reducer>>

\* _find_minimum_covering_modules applied to its own result
FindCoveringAgain ==
    /\ pc_reducer = "covered"
    /\ covering_twice' = _find_minimum_covering_modules(covering)
    /\ pc_reducer' = "covered_twice"
    /\ UNCHANGED <<module_names, package_tree, covering, collapse_input,
                   collapsed, collapsed_twice, outside_reducer>>

\* _consider_replacing_child_modules_with_parent on a covering set, as at
\* error_tracker.py:258-260
CollapseCovering ==
    /\ pc_reducer = "covered"
    /\ collapse_input' = covering
    /\ collapsed' = _consider_replacing_child_modules_with_parent(package_tree, covering)
    /\ pc_reducer' = "collapsed"
    /\ UNCHANGED <<module_names, package_tree, covering, covering_twice,
                   collapsed_twice, outside_reducer>>

\* _consider_replacing_child_modules_with_parent on any set of names
CollapseAnySet ==
    /\ pc_reducer = "start"
    /\ collapse_input' = module_names
    /\ collapsed' = _consider_replacing_child_modules_with_parent(package_tree, module_names)
    /\ pc_reducer' = "collapsed"
    /\ UNCHANGED <<module_names, package_tree, covering, covering_twice,
                   collapsed_twice, outside_reducer>>

\* _consider_replacing_child_modules_with_parent applied to its own result
CollapseAgain ==
    /\ pc_reducer = "collapsed"
    /\ ~collapsed.raised
    /\ collapsed_twice' =
           _consider_replacing_child_modules_with_parent(package_tree, collapsed.value)
    /\ pc_reducer' = "collapsed_twice"
    /\ UNCHANGED <<module_names, package_tree, covering, covering_twice,
                   collapse_input, collapsed, outside_reducer>>

NextReducer ==
    \/ FindCovering
    \/ FindCoveringAgain
    \/ CollapseCovering
    \/ CollapseAnySet
    \/ CollapseAgain

SpecReducer == InitReducer /\ [][NextReducer]_vars

(***************************************************************************)
(* The classifier, run on one error.                                       *)
(***************************************************************************)
ErrorCodes == {"misc", "no-untyped-def", "no-untyped-call", "", "import", "arg-type"}

Messages ==
    {"error: Function is missing a type annotation for one or more arguments",
     "error: Function is missing a type annotation",
     "error: Function is missing a return type annotation",
     "error: Untyped decorator makes function \"f\" untyped",
     "error: Call to untyped function \"f\" in typed context",
     "error: unused 'type: ignore' comment",
     "error: Unused \"type: ignore\" comment",
     "error: invalid syntax",
     "Function is missing a type annotation for one or more arguments",
     ""}

InitClassifier ==
    /\ \E code \in ErrorCodes, message \in Messages :
           error = MypyError("p/a.py", 1, code, message)
    /\ error_setting = Pending
    /\ pc_classifier = "start"
    /\ package_tree = Tree({}, {})
    /\ ReducerIdle
    /\ BuilderIdle
    /\ RunnerIdle
    /\ FurtherIdle

\* _get_error_setting_for_error(error)
Classify ==
    /\ pc_classifier = "start"
    /\ error_setting' = _get_error_setting_for_error(error)
    /\ pc_classifier' = "classified"
    /\ UNCHANGED <<error, outside_classifier>>

NextClassifier == Classify

SpecClassifier == InitClassifier /\ [][NextClassifier]_vars

(***************************************************************************)
(* The builder, run twice on one list of errors.                           *)
(***************************************************************************)
UntypedArguments == "error: Function is missing a type annotation for one or more arguments"
UntypedFunction == "error: Function is missing a type annotation"

\* The errors mypy may report, one per line of its output.
ReportedErrors ==
    {MypyError("p/a.py", 1, "no-untyped-def", UntypedArguments),
     MypyError("p/a.py", 2, "no-untyped-def", UntypedFunction),
     MypyError("p/b.py", 1, "no-untyped-def", UntypedArguments),
     MypyError("p/__init__.py", 1, "no-untyped-def", UntypedFunction),
     MypyError("p/a/x.py", 1, "no-untyped-def", UntypedArguments),
     MypyError("q.py", 1, "arg-type", "error: Argument 1 to \"f\" has incompatible type"),
     MypyError("p/b.py", 3, "import",
               "error: Skipping analyzing 'requests': found module but no type hints or library stubs"),
     MypyError("p/b.py", 4, "", "error: invalid syntax"),
     MypyError("p/a.pyc.py", 1, "no-untyped-def", UntypedFunction)}

RECURSIVE SeqsUpTo(_, _)
SeqsUpTo(S, n) ==
    IF n = 0 THEN {<<>>}
    ELSE SeqsUpTo(S, n - 1)
           \cup {Append(s, x) : s \in {t \in SeqsUpTo(S, n - 1) : Len(t) = n - 1}, x \in S}

BuilderTrees ==
    { Tree({"p", "p.a", "p.b"}, {"p"}),
      Tree({"p", "p.a", "p.b", "p.a.x"}, {"p", "p.a"}) }

InitBuilder ==
    /\ errors \in SeqsUpTo(ReportedErrors, MaxErrors)
    /\ package_tree \in BuilderTrees
    /\ suppressions = Pending
    /\ suppressions_again = Pending
    /\ pc_builder = "start"
    /\ ReducerIdle
    /\ ClassifierIdle
    /\ RunnerIdle
    /\ FurtherIdle

\* get_1st_party_modules_and_suppressions(errors)
Build ==
    /\ pc_builder = "start"
    /\ \E extension_order \in ExtensionOrders :
           suppressions' =
               get_1st_party_modules_and_suppressions(errors, package_tree, extension_order)
    /\ pc_builder' = "built"
    /\ UNCHANGED <<errors, suppressions_again, package_tree, outside_builder>>

\* get_1st_party_modules_and_suppressions(errors), on the same errors again
BuildAgain ==
    /\ pc_builder = "built"
    /\ \E extension_order \in ExtensionOrders :
           suppressions_again' =
               get_1st_party_modules_and_suppressions(errors, package_tree, extension_order)
    /\ pc_builder' = "built_again"
    /\ UNCHANGED <<errors, suppressions, package_tree, outside_builder>>

Next ==
    \/ Build
    \/ BuildAgain

Spec == InitBuilder /\ [][Next]_vars

(***************************************************************************)
(* The runner, on one completed mypy process.                              *)
(***************************************************************************)
\* Lines mypy prints before its summary.
ErrorLines ==
    {"p/a.py:3: error: Function is missing a type annotation  [no-untyped-def]",
     "p/a.py:3: note: Use \"-> None\" if function does not return a value",
     "p/b.py:7: error: unused 'type: ignore' comment",
     "p/b.py:9: error: Value of type \"List[int]\" is not indexable",
     "C:\\p\\a.py:3: error: Name \"x\" is not defined  [name-defined]"}

\* Last lines of the output.
SummaryLines ==
    {"Success: no issues found in 2 source files",
     "Found 1 error in 1 file (checked 2 source files)",
     "Found no issues",
     "Summary: 1 error",
     "p/a.py:3: error: Function is missing a type annotation  [no-untyped-def]"}

ExitCodes == {0, 1, 2}

InitRunner ==
    /\ returncode \in ExitCodes
    /\ \E error_lines \in SeqsUpTo(ErrorLines, MaxErrorLines),
          summary \in SummaryLines, ending \in {"", "\n"} :
           stdout = Join(Append(error_lines, summary), "\n") \o ending
    /\ mypy_errors = Pending
    /\ pc_runner = "start"
    /\ package_tree = Tree({}, {})
    /\ ReducerIdle
    /\ ClassifierIdle
    /\ BuilderIdle
    /\ FurtherIdle

\* get_mypy_errors_from_completed_process(completed_process)
GetMypyErrors ==
    /\ pc_runner = "start"
    /\ mypy_errors' = get_mypy_errors_from_completed_process(returncode, stdout)
    /\ pc_runner' = "done"
    /\ UNCHANGED <<returncode, stdout, outside_runner>>

NextRunner == GetMypyErrors

SpecRunner == InitRunner /\ [][NextRunner]_vars

(***************************************************************************)
(* The line parser, on one line of mypy's output.                          *)
(***************************************************************************)
FilePaths == {"p/a.py", "src/app.py", " q.py "}
LineNumbers == {"10", " 3", "1_0"}

\* What mypy prints after <path>:<line>:
Tails ==
    {" error: Something [misc]",
     " error: Something  [misc]  ",
     " error: Something [a-b] [misc]",
     " error: Something []",
     " error: unused 'type: ignore' comment",
     " error: Value of type \"List[int]\" is not indexable",
     " error: Value of type \"List[int]\" is not indexable  [index]",
     " error: Unused \"type: ignore[misc]\" comment",
     " note: See [misc]",
     "12: error: Something [misc]",
     ""}

InitParser ==
    /\ \E file_path \in FilePaths, line_num \in LineNumbers, tail \in Tails :
           output_line = file_path \o ":" \o line_num \o ":" \o tail
    /\ parsed = Pending
    /\ pc_parser = "start"
    /\ FirstIdle
    /\ ImportsIdle
    /\ ValidationIdle
    /\ TomlIdle
    /\ FinderIdle
    /\ CliIdle
    /\ PassesIdle

\* MypyError.from_mypy_output_line(line)
ParseLine ==
    /\ pc_parser = "start"
    /\ parsed' = from_mypy_output_line(output_line)
    /\ pc_parser' = "parsed"
    /\ UNCHANGED <<output_line, outside_parser>>

NextParser == ParseLine

SpecParser == InitParser /\ [][NextParser]_vars

(***************************************************************************)
(* The third-party module finder, on one list of strict-run errors.        *)
(***************************************************************************)
NoTypeHints == ": found module but no type hints or library stubs"
CannotFind == "error: Cannot find implementation or library stub for module named "

\* The errors of a strict run that the finder may be handed.
StrictRunErrors ==
    {MypyError("p/a.py", 1, "import", "error: Skipping analyzing 'requests'" \o NoTypeHints),
     MypyError("p/a.py", 2, "import",
               "error: Skipping analyzing \"requests.adapters\"" \o NoTypeHints),
     MypyError("p/a.py", 3, "import", CannotFind \o "'yaml'"),
     MypyError("p/b.py", 1, "import", CannotFind \o "\"yaml.nodes\""),
     MypyError("p/b.py", 2, "import", "Skipping analyzing 'requests'" \o NoTypeHints),
     MypyError("p/b.py", 3, "import", "error: No library stub file for module 'requests'"),
     MypyError("p/b.py", 4, "import", "error: Skipping analyzing 'a-b'" \o NoTypeHints),
     MypyError("p/b.py", 5, "import", "error: Skipping analyzing 'six': found module"),
     MypyError("q.py", 1, "misc", "error: Skipping analyzing 'attr'" \o NoTypeHints),
     MypyError("q.py", 2, "", "error: unused 'type: ignore' comment")}

InitImports ==
    /\ strict_errors \in SeqsUpTo(StrictRunErrors, MaxErrors)
    /\ missing_type_hints = Pending
    /\ pc_imports = "start"
    /\ FirstIdle
    /\ ParserIdle
    /\ ValidationIdle
    /\ TomlIdle
    /\ FinderIdle
    /\ CliIdle
    /\ PassesIdle

\* get_3rd_party_modules_missing_type_hints(strict_errors)
GetMissingTypeHints ==
    /\ pc_imports = "start"
    /\ missing_type_hints' = get_3rd_party_modules_missing_type_hints(strict_errors)
    /\ pc_imports' = "done"
    /\ UNCHANGED <<strict_errors, outside_imports>>

NextImports == GetMissingTypeHints

SpecImports == InitImports /\ [][NextImports]_vars

(***************************************************************************)
(* Module-name validation and the block makers, on one name.               *)
(***************************************************************************)
\* The characters the names are made of: a letter, a digit, the underscore,
\* the dot and a character outside expected_chars.
NameAlphabet == {"p", "1", "_", ".", "-"}

RECURSIVE NamesUpTo(_)
NamesUpTo(n) ==
    IF n = 0 THEN {""}
    ELSE NamesUpTo(n - 1)
           \cup {s \o c : s \in {t \in NamesUpTo(n - 1) : Len(t) = n - 1}, c \in NameAlphabet}

\* The rule lists handed to make_1st_party_module_rule_block.
RuleLists ==
    {<<>>,
     <<Setting("disallow_untyped_defs", FALSE)>>,
     <<Setting("disallow_incomplete_defs", FALSE), Setting("disallow_untyped_defs", FALSE)>>}

InitValidation ==
    /\ name_to_validate \in NamesUpTo(MaxNameLen)
    /\ validation = Pending
    /\ config_block = Pending
    /\ pc_validation = "start"
    /\ FirstIdle
    /\ ParserIdle
    /\ ImportsIdle
    /\ TomlIdle
    /\ FinderIdle
    /\ CliIdle
    /\ PassesIdle

\* validate_module_name(name_to_validate)
ValidateName ==
    /\ pc_validation = "start"
    /\ validation' = IF validate_module_name(name_to_validate) THEN Returned(None)
                     ELSE RaisedError("AssertionError")
    /\ pc_validation' = "validated"
    /\ UNCHANGED <<name_to_validate, config_block, outside_validation>>

\* make_ignore_missing_imports_block(name_to_validate)
MakeIgnoreMissingImportsBlock ==
    /\ pc_validation = "validated"
    /\ config_block' = make_ignore_missing_imports_block(name_to_validate)
    /\ pc_validation' = "made"
    /\ UNCHANGED <<name_to_validate, validation, outside_validation>>

\* make_1st_party_module_rule_block(name_to_validate, rules)
Make1stPartyModuleRuleBlock ==
    /\ pc_validation = "validated"
    /\ \E rules \in RuleLists :
           config_block' = make_1st_party_module_rule_block(name_to_validate, rules)
    /\ pc_validation' = "made"
    /\ UNCHANGED <<name_to_validate, validation, outside_validation>>

NextValidation ==
    \/ ValidateName
    \/ MakeIgnoreMissingImportsBlock
    \/ Make1stPartyModuleRuleBlock

SpecValidation == InitValidation /\ [][NextValidation]_vars

(***************************************************************************)
(* TypingCopilotConfig.from_toml, on one parsed pyproject.toml.            *)
(***************************************************************************)
\* The options a mypy_global_config table may hold.
GlobalOptions ==
    {<<"warn_unused_ignores", TomlBool(TRUE)>>,
     <<"plugins", TomlList(<<TomlStr("mypy_django_plugin.main")>>)>>,
     <<"python_version", TomlStr("3.8")>>,
     <<"show_error_context", TomlBool(FALSE)>>,
     <<"always_true", TomlList(<<TomlStr("A"), TomlStr("B")>>)>>}

\* The tables of up to n options, each option at most once.
GlobalConfigs(n) ==
    {TomlTable(items) : items \in {t \in SeqsUpTo(GlobalOptions, n) :
                                      \A i, j \in 1..Len(t) : i # j => t[i][1] # t[j][1]}}

\* The parsed pyproject.toml files around one mypy_global_config table.
TomlContents(global_config) ==
    {TomlTable(<<>>),
     TomlTable(<< <<"build-system", TomlTable(<< <<"requires", TomlList(<<>>)>> >>)>> >>),
     TomlTable(<< <<"tool", TomlTable(<< <<"typing_copilot", TomlTable(<<>>)>> >>)>> >>),
     TomlTable(<< <<"tool", TomlTable(<< <<"typing_copilot",
         TomlTable(<< <<"mypy_global_config", global_config>> >>)>> >>)>> >>),
     TomlTable(<< <<"tool", TomlTable(<< <<"black", TomlTable(<<>>)>>,
                                         <<"typing_copilot",
         TomlTable(<< <<"mypy_global_config", global_config>> >>)>> >>)>> >>),
     TomlTable(<< <<"tool-typing_copilot",
         TomlTable(<< <<"mypy_global_config", global_config>> >>)>> >>)}

InitToml ==
    /\ \E global_config \in GlobalConfigs(MaxOptions) :
           toml_content \in TomlContents(global_config)
    /\ own_config = Pending
    /\ pc_toml = "start"
    /\ FirstIdle
    /\ ParserIdle
    /\ ImportsIdle
    /\ ValidationIdle
    /\ FinderIdle
    /\ CliIdle
    /\ PassesIdle

\* TypingCopilotConfig.from_toml(toml_content)
FromToml ==
    /\ pc_toml = "start"
    /\ own_config' = Returned(from_toml(toml_content))
    /\ pc_toml' = "read"
    /\ UNCHANGED <<toml_content, outside_toml>>

\* TypingCopilotConfig.empty()
EmptyConfig ==
    /\ pc_toml = "start"
    /\ own_config' = Returned(empty)
    /\ pc_toml' = "empty"
    /\ UNCHANGED <<toml_content, outside_toml>>

NextToml ==
    \/ FromToml
    \/ EmptyConfig

SpecToml == InitToml /\ [][NextToml]_vars

(***************************************************************************)
(* The pyproject.toml finder, on one file system and one search path.      *)
(***************************************************************************)
\* What a directory holds under the three names the finder looks at.
Holding(pyproject, git, hg) ==
    [name \in {"pyproject.toml", ".git", ".hg"} |->
        IF name = "pyproject.toml" THEN pyproject ELSE IF name = ".git" THEN git ELSE hg]

DirectoryContents ==
    {Holding("none", "none", "none"),
     Holding("file", "none", "none"),
     Holding("dir", "none", "none"),      \* a directory named pyproject.toml
     Holding("none", "dir", "none"),
     Holding("none", "file", "none"),     \* the .git file of a worktree
     Holding("none", "none", "dir"),
     Holding("file", "dir", "none")}

\* The file systems with the root and depth directories below it.
FileSystems(depth) == [1..(depth + 1) -> DirectoryContents]

\* The search paths: the working directory, its parent, a directory that is
\* not there next to it, and the first directory below the root.
SearchPaths ==
    {RelativePath(<<>>), RelativePath(<<"..">>), RelativePath(<<"..", "elsewhere">>),
     Path(<<"home">>)}

InitFinder ==
    /\ file_system \in FileSystems(MaxDepth)
    /\ cwd = Path(SubSeq(DirectoryChain, 1, MaxDepth))
    /\ search_path \in SearchPaths
    /\ pyproject_path = Pending
    /\ pc_finder = "start"
    /\ FirstIdle
    /\ ParserIdle
    /\ ImportsIdle
    /\ ValidationIdle
    /\ TomlIdle
    /\ CliIdle
    /\ PassesIdle

\* _find_pyproject_toml(search_path)
FindPyprojectToml ==
    /\ pc_finder = "start"
    /\ pyproject_path' = Returned(_find_pyproject_toml(file_system, cwd, search_path))
    /\ pc_finder' = "done"
    /\ UNCHANGED <<file_system, cwd, search_path, outside_finder>>

NextFinder == FindPyprojectToml

SpecFinder == InitFinder /\ [][NextFinder]_vars

(***************************************************************************)
(* _consider_replacing_child_modules_with_parent, activation by activation *)
(* (error_tracker.py:150-199): each activation makes one pass and either   *)
(* returns its result or calls the function again on it.                   *)
(***************************************************************************)
InitPasses ==
    /\ package_tree \in PackageTrees
    /\ pass_input \in InputSets
    /\ pass_names = pass_input
    /\ pass_count = 0
    /\ pass_replaced = {}
    /\ pass_outcome = Pending
    /\ pc_passes = "call"
    /\ ReducerIdle
    /\ ClassifierIdle
    /\ BuilderIdle
    /\ RunnerIdle
    /\ ParserIdle
    /\ ImportsIdle
    /\ ValidationIdle
    /\ TomlIdle
    /\ FinderIdle
    /\ CliIdle

\* The parents a pass emits in the place of their children (lines 183-186).
ReplacingParents(tree, names) ==
    {parent_name \in ParentNames(names) : UnseenChildModules(tree, names, parent_name) = {}}

\* One activation: lines 159-193 make the pass, lines 195-199 return the
\* result when it equals the argument and call the function on it otherwise.
OnePass ==
    /\ pc_passes = "call"
    /\ pass_count' = pass_count + 1
    /\ IF PassRaises(package_tree, pass_names)
       THEN /\ pass_outcome' = Raised
            /\ pc_passes' = "done"
            /\ UNCHANGED <<pass_names, pass_replaced>>
       ELSE /\ pass_replaced' = pass_replaced \cup ReplacingParents(package_tree, pass_names)
            /\ IF CollapsePass(package_tree, pass_names) = pass_names
               THEN /\ pass_outcome' = Returned(pass_names)
                    /\ pc_passes' = "done"
                    /\ UNCHANGED pass_names
               ELSE /\ pass_names' = CollapsePass(package_tree, pass_names)
                    /\ UNCHANGED <<pass_outcome, pc_passes>>
    /\ UNCHANGED <<package_tree, pass_input, outside_passes>>

NextPasses == OnePass

SpecPasses == InitPasses /\ [][NextPasses]_vars

\* The interpreter runs the call to its end: an activation that can run does.
FairSpecPasses == SpecPasses /\ WF_vars(OnePass)

(***************************************************************************)
(* The commands init and tighten, mypy being run by the environment.       *)
(***************************************************************************)
FoundOneError == "Found 1 error in 1 file (checked 2 source files)\n"
FoundTwoErrors == "Found 2 errors in 2 files (checked 2 source files)\n"
UnusedIgnoreLine == "p/b.py:7: error: unused 'type: ignore' comment\n"
ArgTypeLine ==
    "p/a.py:5: error: Argument 1 to \"f\" has incompatible type \"int\"  [arg-type]\n"

\* What a run of mypy may come to.
MypyRuns ==
    {CompletedProcess(0, "Success: no issues found in 2 source files\n", ""),
     CompletedProcess(1, "p/a.py:3: error: Function is missing a type annotation"
                             \o "  [no-untyped-def]\n" \o FoundOneError, ""),
     CompletedProcess(1, "p/a.pyc.py:3: error: Function is missing a type annotation"
                             \o "  [no-untyped-def]\n" \o FoundOneError, ""),
     CompletedProcess(1, "p/a.py:1: error: Skipping analyzing 'requests': found module but "
                             \o "no type hints or library stubs  [import]\n"
                             \o FoundOneError, ""),
     CompletedProcess(1, UnusedIgnoreLine \o FoundOneError, ""),
     CompletedProcess(1, ArgTypeLine \o FoundOneError, ""),
     CompletedProcess(1, UnusedIgnoreLine \o ArgTypeLine \o FoundTwoErrors, ""),
     CompletedProcess(1, "p/b.py:9: error: invalid syntax\n" \o FoundOneError, ""),
     CompletedProcess(1, "p/b.py:9: error: invalid syntax\n" \o ArgTypeLine
                             \o FoundTwoErrors, ""),
     CompletedProcess(1, "mypy: can't read file 'p'\n", ""),
     CompletedProcess(2, "", "p/a.py:3: error: INTERNAL ERROR -- please report a bug\n"),
     CompletedProcess(2, "", "usage: mypy [-h] [files ...]\n")}

\* What reading pyproject.toml may come to.
PyprojectReads ==
    {None, [error |-> "OSError"], [error |-> "TomlDecodeError"],
     TomlTable(<< <<"tool", TomlTable(<< <<"typing_copilot", TomlTable(
         << <<"mypy_global_config",
              TomlTable(<< <<"warn_unused_ignores", TomlBool(TRUE)>> >>)>> >>)>> >>)>> >>)}

\* A configuration the program wrote earlier, relaxing one flag for p.a.
RelaxedConfig ==
    _generate_final_mypy_config_from_components(
        STRICT_BASELINE_MYPY_CONFIG, make_unused_ignores_config_line(TRUE),
        "# First party per-module rule relaxations"
            \o "\n[mypy-p.a.*]\ndisallow_untyped_defs = False\n",
        "")

\* The mypy.ini files a command may find: none, a hand-written one, an
\* empty one, and configurations the program wrote.
MypyIniFiles ==
    {None,
     File("[mypy]\nstrict = True\n"),
     File(""),
     File(STRICT_BASELINE_MYPY_CONFIG),
     File("\n\n" \o STRICT_BASELINE_MYPY_CONFIG \o "\n  # checked by hand\n"),
     File(RelaxedConfig)}

\* A command about to run, with the reducer and the other components at rest.
CommandAt(unchanged) ==
    /\ \/ command = "init" /\ overwrite \in BOOLEAN /\ error_if_can_tighten = FALSE
       \/ command = "tighten" /\ overwrite = FALSE /\ error_if_can_tighten \in BOOLEAN
    /\ mypy_ini_at_start \in MypyIniFiles
    /\ mypy_ini = mypy_ini_at_start
    /\ writes = <<>>
    /\ echoed = <<>>
    /\ typing_copilot_config = Pending
    /\ first_run_errors = Pending
    /\ cli_strict_errors = Pending
    /\ final_config_components = Pending
    /\ final_config = Pending
    /\ validation_process = Pending
    /\ cli_exit = Pending
    /\ pc_cli = "start"
    /\ mypy_runs = <<>>
    /\ command_number = 1
    /\ unchanged_codebase = unchanged
    /\ checker_memo = <<>>
    /\ pyproject_seen = Pending
    /\ package_tree = Tree({"p", "p.a", "p.b"}, {"p"})
    /\ ReducerIdle
    /\ ClassifierIdle
    /\ BuilderIdle
    /\ RunnerIdle
    /\ ParserIdle
    /\ ImportsIdle
    /\ ValidationIdle
    /\ TomlIdle
    /\ FinderIdle
    /\ PassesIdle

\* One command, each run of mypy coming to whatever it may.
InitCli == CommandAt(FALSE)

\* What no step of a command changes.
cli_arguments == <<command, overwrite, error_if_can_tighten, mypy_ini_at_start,
                   command_number, unchanged_codebase>>

\* A run of mypy: which run of the command it is, and the config it is given.
MypyRun(kind, config) == [kind |-> kind, config |-> config]

\* lines 127-130: the config of the strict run
StrictRunConfig(config) ==
    make_strict_baseline_mypy_config(config) \o make_unused_ignores_config_line(FALSE)

\* What a config means to mypy: its lines without comments and blank lines,
\* the global warn_unused_ignores line taken out and kept apart (the flag is
\* off when the line is absent).
ConfigMeaning(config) ==
    LET Meaning(lines) ==
            LET flag_at == {i \in 1..Len(lines) :
                               /\ StartsWith(lines[i], "warn_unused_ignores = ")
                               /\ \A j \in 1..i : ~StartsWith(lines[j], "[mypy-")}
                kept == (1..Len(lines)) \ flag_at
                nth(k) == CHOOSE i \in kept : Cardinality({j \in kept : j < i}) = k - 1
            IN  [settings |-> [k \in 1..Cardinality(kept) |-> lines[nth(k)]],
                 warn_unused_ignores |->
                     \E i \in flag_at : lines[i] = "warn_unused_ignores = True"]
    IN  Only({Meaning(lines) : lines \in {ConfigLinesMinusComments(config)}})

\* What a run of mypy may come to on an unchanged codebase, by what the
\* config means: a config that was run before gives what it gave, and a
\* config that differs from one that gave nothing but unused 'type: ignore'
\* errors only in having warn_unused_ignores off gives no error.
KnownOutputs(meaning) ==
    IF meaning \in DOMAIN checker_memo THEN {checker_memo[meaning]}
    ELSE IF /\ ~meaning.warn_unused_ignores
            /\ [meaning EXCEPT !.warn_unused_ignores = TRUE] \in DOMAIN checker_memo
            /\ ~_get_unused_ignore_errors_from_validation_run(
                    checker_memo[[meaning EXCEPT !.warn_unused_ignores = TRUE]]).raised
    THEN {process \in MypyRuns : process.returncode = 0}
    ELSE MypyRuns

\* What a run of mypy with a config may come to.
CheckerOutputs(config) ==
    IF ~unchanged_codebase THEN MypyRuns ELSE KnownOutputs(ConfigMeaning(config))

\* checker_memo after a run of mypy.
Remembered(memo, config, process) ==
    IF ~unchanged_codebase THEN memo
    ELSE Only({[m \in DOMAIN memo \cup {meaning} |->
                   IF m = meaning THEN process ELSE memo[m]] :
               meaning \in {ConfigMeaning(config)}})

\* What reading pyproject.toml may come to: on an unchanged codebase, what it
\* came to before.
PyprojectOutcomes ==
    IF unchanged_codebase /\ pyproject_seen # Pending THEN {pyproject_seen.value}
    ELSE PyprojectReads

\* init, lines 231-250: the mypy.ini test and _get_own_config.
InitBegin ==
    /\ command = "init"
    /\ pc_cli = "start"
    /\ \E pyproject \in PyprojectOutcomes :
           LET own == _get_own_config(pyproject)
           IN  IF mypy_ini # None /\ ~overwrite
               THEN /\ cli_exit' = Returned(1)
                    /\ pc_cli' = "exited"
                    /\ UNCHANGED <<typing_copilot_config, pyproject_seen>>
               ELSE /\ pyproject_seen' = Returned(pyproject)
                    /\ IF own.exit
                       THEN /\ cli_exit' = Returned(own.status)
                            /\ pc_cli' = "exited"
                            /\ UNCHANGED typing_copilot_config
                       ELSE /\ typing_copilot_config' = Returned(own.config)
                            /\ pc_cli' = "baseline"
                            /\ UNCHANGED cli_exit
    /\ UNCHANGED <<cli_arguments, mypy_ini, writes, echoed, first_run_errors,
                   cli_strict_errors, final_config_components, final_config,
                   validation_process, mypy_runs, checker_memo, package_tree,
                   outside_cli_tree>>

\* init, lines 252-271: the run with the laxest settings.
InitBaselineRun ==
    /\ command = "init"
    /\ pc_cli = "baseline"
    /\ \E full_lax_config \in
               {make_lax_baseline_mypy_config(typing_copilot_config.value)
                    \o make_unused_ignores_config_line(FALSE)} :
       \E process \in CheckerOutputs(full_lax_config) :
       \E rerun \in CheckerOutputs(Replace(full_lax_config, "strict_optional = False\n",
                                           "strict_optional = True\n")) :
       \E worked \in {_work_around_mypy_strict_optional_bug(
                          process, full_lax_config, rerun)} :
       \E errs \in IF worked.raised THEN {worked}
                   ELSE {get_mypy_errors_from_completed_process(
                             worked.value[1].returncode, worked.value[1].stdout)} :
           /\ first_run_errors' = errs
           /\ IF ~worked.raised /\ worked.value[2] # full_lax_config
              THEN /\ mypy_runs' = mypy_runs \o <<MypyRun("baseline", full_lax_config),
                                                  MypyRun("baseline", worked.value[2])>>
                   /\ checker_memo' = Remembered(
                          Remembered(checker_memo, full_lax_config, process),
                          worked.value[2], rerun)
              ELSE /\ mypy_runs' = Append(mypy_runs, MypyRun("baseline", full_lax_config))
                   /\ checker_memo' = Remembered(checker_memo, full_lax_config, process)
           /\ IF errs.raised
              THEN cli_exit' = errs /\ pc_cli' = "exited"
              ELSE IF Len(errs.value) > 0
              THEN cli_exit' = Returned(0) /\ pc_cli' = "exited"
              ELSE pc_cli' = "strict" /\ UNCHANGED cli_exit
    /\ UNCHANGED <<cli_arguments, mypy_ini, writes, echoed, typing_copilot_config,
                   cli_strict_errors, final_config_components, final_config,
                   validation_process, pyproject_seen, package_tree, outside_cli_tree>>

\* init, lines 273-298: the strict run and the configuration built from it.
InitStrictRun ==
    /\ command = "init"
    /\ pc_cli = "strict"
    /\ \E strict_config \in {StrictRunConfig(typing_copilot_config.value)} :
       \E process \in CheckerOutputs(strict_config), extension_order \in ExtensionOrders :
       \E strict \in {get_mypy_errors_from_completed_process(
                          process.returncode, process.stdout)} :
       \E components \in
               IF strict.raised \/ Len(strict.value) = 0 THEN {Pending}
               ELSE {_make_strictest_mypy_config_components_from_errors(
                         typing_copilot_config.value, strict.value,
                         package_tree, extension_order)} :
           LET baseline == make_strict_baseline_mypy_config(typing_copilot_config.value)
           IN  /\ cli_strict_errors' = strict
               /\ mypy_runs' = Append(mypy_runs, MypyRun("strict", strict_config))
               /\ checker_memo' = Remembered(checker_memo, strict_config, process)
               /\ IF strict.raised
                  THEN /\ cli_exit' = strict /\ pc_cli' = "exited"
                       /\ UNCHANGED <<mypy_ini, writes, final_config_components, final_config>>
                  ELSE IF Len(strict.value) = 0
                  THEN /\ mypy_ini' = File(baseline)
                       /\ writes' = Append(writes, baseline)
                       /\ cli_exit' = Returned(0) /\ pc_cli' = "exited"
                       /\ UNCHANGED <<final_config_components, final_config>>
                  ELSE IF components.raised
                  THEN /\ cli_exit' = components /\ pc_cli' = "exited"
                       /\ UNCHANGED <<mypy_ini, writes, final_config_components, final_config>>
                  ELSE /\ final_config_components' = Returned(components.value)
                       /\ final_config' = Returned(_generate_final_mypy_config_from_components(
                              components.value[1], components.value[2],
                              components.value[3], components.value[4]))
                       /\ pc_cli' = "validation"
                       /\ UNCHANGED <<mypy_ini, writes, cli_exit>>
    /\ UNCHANGED <<cli_arguments, echoed, typing_copilot_config, first_run_errors,
                   validation_process, pyproject_seen, package_tree, outside_cli_tree>>

\* init, lines 300-309: the validation run and the write of mypy.ini.
InitValidationRun ==
    /\ command = "init"
    /\ pc_cli = "validation"
    /\ \E process \in CheckerOutputs(final_config.value) :
       \E unused_ignore_errors \in {_get_unused_ignore_errors_from_validation_run(process)} :
           LET config == IF Len(unused_ignore_errors.value) > 0
                         THEN _generate_final_mypy_config_with_unused_ignore_suppression(
                                  final_config_components.value,
                                  unused_ignore_errors.value).value
                         ELSE final_config.value
           IN  /\ validation_process' = process
               /\ mypy_runs' = Append(mypy_runs, MypyRun("validation", final_config.value))
               /\ checker_memo' = Remembered(checker_memo, final_config.value, process)
               /\ IF unused_ignore_errors.raised
                  THEN /\ cli_exit' = unused_ignore_errors
                       /\ UNCHANGED <<mypy_ini, writes, final_config>>
                  ELSE /\ final_config' = Returned(config)
                       /\ mypy_ini' = File(config)
                       /\ writes' = Append(writes, config)
                       /\ cli_exit' = Returned(0)
    /\ pc_cli' = "exited"
    /\ UNCHANGED <<cli_arguments, echoed, typing_copilot_config, first_run_errors,
                   cli_strict_errors, final_config_components, pyproject_seen,
                   package_tree, outside_cli_tree>>

\* tighten, lines 336-364: the mypy.ini test and _get_own_config.
TightenBegin ==
    /\ command = "tighten"
    /\ pc_cli = "start"
    /\ \E pyproject \in PyprojectOutcomes :
           LET own == _get_own_config(pyproject)
           IN  IF mypy_ini = None
               THEN /\ cli_exit' = Returned(1)
                    /\ pc_cli' = "exited"
                    /\ UNCHANGED <<typing_copilot_config, pyproject_seen>>
               ELSE IF ~StartsWith(FirstNonEmptyLine(mypy_ini.content),
                                   AUTOGENERATED_LINE_PREFIX)
               THEN /\ cli_exit' = Returned(1)
                    /\ pc_cli' = "exited"
                    /\ UNCHANGED <<typing_copilot_config, pyproject_seen>>
               ELSE /\ pyproject_seen' = Returned(pyproject)
                    /\ IF own.exit
                       THEN /\ cli_exit' = Returned(own.status)
                            /\ pc_cli' = "exited"
                            /\ UNCHANGED typing_copilot_config
                       ELSE /\ typing_copilot_config' = Returned(own.config)
                            /\ pc_cli' = "current"
                            /\ UNCHANGED cli_exit
    /\ UNCHANGED <<cli_arguments, mypy_ini, writes, echoed, first_run_errors,
                   cli_strict_errors, final_config_components, final_config,
                   validation_process, mypy_runs, checker_memo, package_tree,
                   outside_cli_tree>>

\* Faulty variant of TightenCurrentRun: errors under the current mypy.ini do
\* not end the command.
TightenCurrentRun_goes_on ==
    /\ command = "tighten"
    /\ pc_cli = "current"
    /\ \E process \in CheckerOutputs(mypy_ini.content) :
       \E errs \in {get_mypy_errors_from_completed_process(
                        process.returncode, process.stdout)} :
           /\ first_run_errors' = errs
           /\ mypy_runs' = Append(mypy_runs, MypyRun("current", mypy_ini.content))
           /\ checker_memo' = Remembered(checker_memo, mypy_ini.content, process)
           /\ IF errs.raised
              THEN cli_exit' = errs /\ pc_cli' = "exited"
              ELSE pc_cli' = "strict" /\ UNCHANGED cli_exit
    /\ UNCHANGED <<cli_arguments, mypy_ini, writes, echoed, typing_copilot_config,
                   cli_strict_errors, final_config_components, final_config,
                   validation_process, pyproject_seen, package_tree, outside_cli_tree>>

\* tighten, lines 366-376: the run under the current mypy.ini.
TightenCurrentRun ==
    /\ command = "tighten"
    /\ pc_cli = "current"
    /\ \E process \in CheckerOutputs(mypy_ini.content) :
       \E errs \in {get_mypy_errors_from_completed_process(
                        process.returncode, process.stdout)} :
           /\ first_run_errors' = errs
           /\ mypy_runs' = Append(mypy_runs, MypyRun("current", mypy_ini.content))
           /\ checker_memo' = Remembered(checker_memo, mypy_ini.content, process)
           /\ IF errs.raised
              THEN cli_exit' = errs /\ pc_cli' = "exited"
              ELSE IF Len(errs.value) > 0
              THEN cli_exit' = Returned(1) /\ pc_cli' = "exited"
              ELSE pc_cli' = "strict" /\ UNCHANGED cli_exit
    /\ UNCHANGED <<cli_arguments, mypy_ini, writes, echoed, typing_copilot_config,
                   cli_strict_errors, final_config_components, final_config,
                   validation_process, pyproject_seen, package_tree, outside_cli_tree>>

\* tighten, lines 388-398 and, without strict errors, 406-426.
TightenStrictRun ==
    /\ command = "tighten"
    /\ pc_cli = "strict"
    /\ \E strict_config \in {StrictRunConfig(typing_copilot_config.value)} :
       \E process \in CheckerOutputs(strict_config), extension_order \in ExtensionOrders :
       \E strict \in {get_mypy_errors_from_completed_process(
                          process.returncode, process.stdout)} :
       \E components \in
               IF strict.raised \/ Len(strict.value) = 0 THEN {Pending}
               ELSE {_make_strictest_mypy_config_components_from_errors(
                         typing_copilot_config.value, strict.value,
                         package_tree, extension_order)} :
       \E finish \in
               IF strict.raised \/ Len(strict.value) > 0 THEN {Pending}
               ELSE {TightenFinish(mypy_ini_at_start.content,
                         make_strict_baseline_mypy_config(typing_copilot_config.value),
                         error_if_can_tighten)} :
           LET baseline == make_strict_baseline_mypy_config(typing_copilot_config.value)
           IN  /\ cli_strict_errors' = strict
               /\ mypy_runs' = Append(mypy_runs, MypyRun("strict", strict_config))
               /\ checker_memo' = Remembered(checker_memo, strict_config, process)
               /\ IF strict.raised
                  THEN /\ cli_exit' = strict /\ pc_cli' = "exited"
                       /\ UNCHANGED <<mypy_ini, writes, echoed, final_config_components,
                                      final_config>>
                  ELSE IF Len(strict.value) = 0
                  THEN /\ final_config' = Returned(baseline)
                       /\ mypy_ini' = IF Len(finish.written) > 0 THEN File(finish.written[1])
                                      ELSE mypy_ini
                       /\ writes' = writes \o finish.written
                       /\ echoed' = echoed \o finish.echoed
                       /\ cli_exit' = Returned(finish.status) /\ pc_cli' = "exited"
                       /\ UNCHANGED final_config_components
                  ELSE IF components.raised
                  THEN /\ cli_exit' = components /\ pc_cli' = "exited"
                       /\ UNCHANGED <<mypy_ini, writes, echoed, final_config_components,
                                      final_config>>
                  ELSE /\ final_config_components' = Returned(components.value)
                       /\ final_config' = Returned(_generate_final_mypy_config_from_components(
                              components.value[1], components.value[2],
                              components.value[3], components.value[4]))
                       /\ pc_cli' = "validation"
                       /\ UNCHANGED <<mypy_ini, writes, echoed, cli_exit>>
    /\ UNCHANGED <<cli_arguments, typing_copilot_config, first_run_errors,
                   validation_process, pyproject_seen, package_tree, outside_cli_tree>>

\* tighten, lines 400-426: the validation run and the end of the command.
TightenValidationRun ==
    /\ command = "tighten"
    /\ pc_cli = "validation"
    /\ \E process \in CheckerOutputs(final_config.value) :
       \E unused_ignore_errors \in {_get_unused_ignore_errors_from_validation_run(process)} :
       \E config \in
               IF unused_ignore_errors.raised THEN {Pending}
               ELSE IF Len(unused_ignore_errors.value) > 0
               THEN {_generate_final_mypy_config_with_unused_ignore_suppression(
                         final_config_components.value, unused_ignore_errors.value).value}
               ELSE {final_config.value} :
       \E finish \in
               IF unused_ignore_errors.raised THEN {Pending}
               ELSE {TightenFinish(mypy_ini_at_start.content, config,
                                   error_if_can_tighten)} :
           /\ validation_process' = process
           /\ mypy_runs' = Append(mypy_runs, MypyRun("validation", final_config.value))
           /\ checker_memo' = Remembered(checker_memo, final_config.value, process)
           /\ IF unused_ignore_errors.raised
              THEN /\ cli_exit' = unused_ignore_errors
                   /\ UNCHANGED <<mypy_ini, writes, echoed, final_config>>
              ELSE /\ final_config' = Returned(config)
                   /\ mypy_ini' = IF Len(finish.written) > 0 THEN File(finish.written[1])
                                  ELSE mypy_ini
                   /\ writes' = writes \o finish.written
                   /\ echoed' = echoed \o finish.echoed
                   /\ cli_exit' = Returned(finish.status)
    /\ pc_cli' = "exited"
    /\ UNCHANGED <<cli_arguments, typing_copilot_config, first_run_errors,
                   cli_strict_errors, final_config_components, pyproject_seen,
                   package_tree, outside_cli_tree>>

NextCli ==
    \/ InitBegin
    \/ InitBaselineRun
    \/ InitStrictRun
    \/ InitValidationRun
    \/ TightenBegin
    \/ TightenCurrentRun
    \/ TightenStrictRun
    \/ TightenValidationRun

SpecCli == InitCli /\ [][NextCli]_vars

(***************************************************************************)
(* tighten run again on an unchanged codebase, after a command that wrote  *)
(* mypy.ini: mypy gives the same output for the same configuration, and    *)
(* pyproject.toml reads as it did.                                         *)
(***************************************************************************)
InitRerun == CommandAt(TRUE)

\* tighten is started on the mypy.ini the command before it wrote.
RunAgain ==
    /\ unchanged_codebase
    /\ command_number = 1
    /\ pc_cli = "exited"
    /\ writes # <<>>
    /\ command' = "tighten"
    /\ overwrite' = FALSE
    /\ error_if_can_tighten' \in BOOLEAN
    /\ mypy_ini_at_start' = mypy_ini
    /\ writes' = <<>>
    /\ echoed' = <<>>
    /\ typing_copilot_config' = Pending
    /\ first_run_errors' = Pending
    /\ cli_strict_errors' = Pending
    /\ final_config_components' = Pending
    /\ final_config' = Pending
    /\ validation_process' = Pending
    /\ cli_exit' = Pending
    /\ pc_cli' = "start"
    /\ mypy_runs' = <<>>
    /\ command_number' = 2
    /\ UNCHANGED <<mypy_ini, unchanged_codebase, checker_memo, pyproject_seen,
                   package_tree, outside_cli_tree>>

NextRerun ==
    \/ InitBegin
    \/ InitBaselineRun
    \/ InitStrictRun
    \/ InitValidationRun
    \/ TightenBegin
    \/ TightenCurrentRun
    \/ TightenStrictRun
    \/ TightenValidationRun
    \/ RunAgain

SpecRerun == InitRerun /\ [][NextRerun]_vars

(***************************************************************************)
(* Properties of the name-set reducer.                                     *)
(***************************************************************************)
\* a is a proper dot-prefix ancestor of m: m is a, a dot, and more.
IsAncestor(a, m) == StartsWith(m, a \o ".")

\* No member of the set is an ancestor of another member.
IsCoveringSet(names) == \A a \in names : \A b \in names : ~IsAncestor(a, b)

\* The direct children of parent_name that exist in the package tree.
DirectChildren(tree, parent_name) ==
    {m \in tree.modules : Contains(m, ".") /\ ParentOf(m) = parent_name}

CoveringDone == pc_reducer \in {"covered", "covered_twice"}

\* C1: Covering correctness: once _find_minimum_covering_modules has run,
\* every m of the input set is in the result or has a proper dot-prefix
\* ancestor in the result.
C1_CoveringCorrectness ==
    CoveringDone =>
        \A m \in module_names :
            m \in covering \/ \E a \in covering : IsAncestor(a, m)

\* A run in which a name was dropped because an ancestor covers it.
C1_Witness ==
    /\ pc_reducer = "covered"
    /\ \E m \in module_names : m \notin covering /\ \E a \in covering : IsAncestor(a, m)

\* C2: Minimality: no member of the result of _find_minimum_covering_modules
\* is a proper dot-prefix ancestor of another member of the result.
C2_Minimality == CoveringDone => IsCoveringSet(covering)

\* The example {a.b, a.b.c, a.d} -> {a.b, a.d}, with p.a, p.a.x, p.b.
C2_Witness ==
    /\ pc_reducer = "covered"
    /\ module_names = {"p.a", "p.a.x", "p.b"}
    /\ covering = {"p.a", "p.b"}

\* C3: Idempotence: _find_minimum_covering_modules applied to its own result
\* returns that result.
C3_Idempotence == pc_reducer = "covered_twice" => covering_twice = covering

\* The second application follows a first one that dropped a name.
C3_Witness ==
    /\ pc_reducer = "covered_twice"
    /\ covering # module_names
    /\ covering_twice = covering

CollapseReturned == pc_reducer \in {"collapsed", "collapsed_twice"} /\ ~collapsed.raised

\* C6: Children-collapse: when the collapse of a covering set returns, every
\* parent whose direct children in the package tree are all members of the
\* input is in the result, and none of its children is.
C6_CollapseReplacesListedChildren ==
    (CollapseReturned /\ IsCoveringSet(collapse_input)) =>
        \A parent \in package_tree.packages :
            (/\ DirectChildren(package_tree, parent) # {}
             /\ DirectChildren(package_tree, parent) \subseteq collapse_input)
            => /\ parent \in collapsed.value
               /\ DirectChildren(package_tree, parent) \cap collapsed.value = {}

\* The example {pkg.x, pkg.y} -> {pkg}, where the code does collapse.
C6_Witness ==
    /\ pc_reducer = "collapsed"
    /\ package_tree = Tree({"p", "p.a", "p.b"}, {"p"})
    /\ collapse_input = {"p.a", "p.b"}
    /\ collapsed = Returned({"p"})

\* C7: Collapse fixed point: when the collapse returns, the collapse applied
\* to its result returns that result unchanged.
C7_CollapseFixedPoint ==
    pc_reducer = "collapsed_twice" => collapsed_twice = collapsed

\* The second application follows a first one that replaced children.
C7_Witness ==
    /\ pc_reducer = "collapsed_twice"
    /\ collapsed.value # collapse_input
    /\ collapsed_twice = collapsed

(***************************************************************************)
(* Properties of the classifier and of the builder.                        *)
(***************************************************************************)
\* The module name _get_module_for_error returns for the error, in the runs
\* in which it returns.
DerivedModule(err) ==
    (CHOOSE r \in {_get_module_for_error(err, order) : order \in ExtensionOrders} :
         ~r.raised).value

\* The settings of the list the result holds for a module.
SettingsAt(result, module_name) ==
    {result.value[module_name][i] : i \in 1..Len(result.value[module_name])}

\* The result relaxes the setting for the module or for a module covering it.
Relaxes(result, setting, module_name) ==
    \E k \in DOMAIN result.value :
        /\ k = module_name \/ IsAncestor(k, module_name)
        /\ setting \in SettingsAt(result, k)

BuilderReturned == pc_builder \in {"built", "built_again"} /\ ~suppressions.raised

\* C4: Setting-dependency expansion: when the builder returns, every module
\* for which ("disallow_incomplete_defs", False) is needed also has
\* ("disallow_untyped_defs", False) relaxed, for itself or a module covering
\* it, whether or not an error was classified to disallow_untyped_defs.
C4_DependencyExpansion ==
    BuilderReturned =>
        \A i \in 1..Len(errors) :
            (/\ errors[i].error_code # "import"
             /\ _get_error_setting_for_error(errors[i])
                    = Returned(Setting("disallow_incomplete_defs", FALSE)))
            => Relaxes(suppressions, Setting("disallow_untyped_defs", FALSE),
                       DerivedModule(errors[i]))

\* C5: Classifier totality: for every error code that is a key of the
\* classification table and every message, _get_error_setting_for_error
\* returns a Setting and does not raise.
C5_ClassifierTotality ==
    (pc_classifier = "classified"
        /\ error.error_code \in DOMAIN _code_and_message_to_error_setting)
    => ~error_setting.raised

\* C8: Suppression soundness: when the builder returns, every error whose
\* code is not "import" has its classified Setting in the list of its
\* module or of a proper dot-prefix ancestor of its module.
C8_SuppressionSoundness ==
    BuilderReturned =>
        \A i \in 1..Len(errors) :
            errors[i].error_code # "import"
            => Relaxes(suppressions, _get_error_setting_for_error(errors[i]).value,
                       DerivedModule(errors[i]))

\* A run in which the reduction dropped an error's own module, an ancestor
\* carrying its Setting.
C8_Witness ==
    /\ pc_builder = "built"
    /\ ~suppressions.raised
    /\ \E i \in 1..Len(errors) :
           /\ errors[i].error_code # "import"
           /\ DerivedModule(errors[i]) \notin DOMAIN suppressions.value

StrictlyAscending(error_settings) ==
    \A i \in 1..(Len(error_settings) - 1) :
        SettingLess(error_settings[i], error_settings[i + 1])

LastLine(out) == OutputLines(out)[Len(OutputLines(out))]
LinesBeforeLast(out) == SubSeq(OutputLines(out), 1, Len(OutputLines(out)) - 1)

\* The errors parsed from the lines, the notes left out.
ErrorsOf(lines) ==
    SelectSeq([i \in 1..Len(lines) |-> from_mypy_output_line(lines[i]).value],
              LAMBDA value : value # None)

EveryLineParses(lines) ==
    \A i \in 1..Len(lines) : ~from_mypy_output_line(lines[i]).raised

FoundErrors(out) ==
    StartsWith(LastLine(out), "Found ") /\ Contains(LastLine(out), " error")

\* What the protocol prescribes for exit code 0 and for an exit code other
\* than 0 and 1, and for exit code 1 without the error summary.
ProtocolOutsideParsing ==
    /\ returncode = 0 =>
           IF StartsWith(LastLine(stdout), "Success: no issues found")
           THEN mypy_errors = Returned(<<>>)
           ELSE mypy_errors.raised
    /\ (returncode = 1 /\ ~FoundErrors(stdout)) => mypy_errors.raised
    /\ returncode \notin {0, 1} => mypy_errors.raised

\* C10 as stated: with exit code 1 and the error summary in the last line
\* the call returns the errors parsed from the lines before the last.
C10_AsStated ==
    pc_runner = "done" =>
        /\ ProtocolOutsideParsing
        /\ (returncode = 1 /\ FoundErrors(stdout)) =>
               /\ ~mypy_errors.raised
               /\ mypy_errors.value = ErrorsOf(LinesBeforeLast(stdout))

\* C10: Checker-result protocol, amended: with exit code 1 and the error
\* summary in the last line the call returns the errors parsed from the lines
\* before the last, notes left out, when each of those lines parses, and
\* raises when one of them does not.
C10_CheckerResultProtocol ==
    pc_runner = "done" =>
        /\ ProtocolOutsideParsing
        /\ (returncode = 1 /\ FoundErrors(stdout)) =>
               IF EveryLineParses(LinesBeforeLast(stdout))
               THEN mypy_errors = Returned(ErrorsOf(LinesBeforeLast(stdout)))
               ELSE mypy_errors.raised

\* Exit code 1 with the summary: an error returned and a note left out.
C10_Witness ==
    /\ pc_runner = "done"
    /\ returncode = 1
    /\ ~mypy_errors.raised
    /\ Len(mypy_errors.value) = 1
    /\ Len(LinesBeforeLast(stdout)) = 2

(***************************************************************************)
(* Properties of the line parser.                                          *)
(***************************************************************************)
\* The trimmed <tail> of a line <path>:<line>:<tail>.
TailOf(l) == Strip(SplitMax(l, ":", 2)[3])

\* The tail ends with a bracketed code: a "[", a code without brackets, and
\* a final "]".
EndsWithBracketedCode(tail) ==
    /\ EndsWith(tail, "]")
    /\ Contains(tail, "[")
    /\ ~Contains(RSplitOnce(SubSeq(tail, 1, Len(tail) - 1), "[")[2], "]")

\* The code between the last "[" and the final "]", and the tail before it.
TrailingCode(tail) == RSplitOnce(SubSeq(tail, 1, Len(tail) - 1), "[")[2]
TailWithoutCode(tail) == Strip(RSplitOnce(tail, "[")[1])

ParsedAnError == pc_parser = "parsed" /\ ~parsed.raised /\ parsed.value # None

\* C11: for every line <path>:<line>:<tail> that is not a note, a tail that
\* ends with a bracketed code [code] gives error_code = code and the tail
\* without the bracket as message; every other tail, also one with a "["
\* elsewhere in the message text, gives error_code = "" and the whole trimmed
\* tail as message.
C11_ErrorCodeExtraction ==
    ParsedAnError =>
        IF EndsWithBracketedCode(TailOf(output_line))
        THEN /\ parsed.value.error_code = TrailingCode(TailOf(output_line))
             /\ parsed.value.message = TailWithoutCode(TailOf(output_line))
        ELSE /\ parsed.value.error_code = ""
             /\ parsed.value.message = TailOf(output_line)

\* A line with a trailing bracketed code has been parsed.
C11_Witness ==
    /\ ParsedAnError
    /\ EndsWithBracketedCode(TailOf(output_line))
    /\ parsed.value.error_code = "misc"
    /\ parsed.value.message = "error: Something"

(***************************************************************************)
(* Properties of the third-party module finder.                            *)
(***************************************************************************)
\* One of the two wordings with a quoted module name, at the start of text:
\* the set of the names it quotes (empty, or one name).
WordingNames(text) ==
    {quoted \in {SubSeq(text, i, j) : i \in 1..Len(text), j \in 1..Len(text)} :
        /\ Len(quoted) > 0
        /\ \A k \in 1..Len(quoted) : Contains(PatternNameChars, CharAt(quoted, k))
        /\ \E open \in PatternQuotes, close \in PatternQuotes :
              \/ StartsWith(text, "Skipping analyzing " \o open \o quoted \o close
                                     \o ": found module but no type hints or library stubs")
              \/ StartsWith(text, "Cannot find implementation or library stub "
                                     \o "for module named " \o open \o quoted \o close)}

\* The message without its "error: " marker, when it has one.
WithoutMarker(message) ==
    IF StartsWith(message, "error: ") THEN SubSeq(message, 8, Len(message)) ELSE message

\* The import-coded diagnostics of the list.
ImportCoded(errs) == {errs[i] : i \in {k \in 1..Len(errs) : errs[k].error_code = "import"}}

\* The members of names without a proper dot-prefix ancestor in names.
WithoutAncestor(names) == {m \in names : ~\E a \in names : IsAncestor(a, m)}

ImportsDone == pc_imports = "done"

\* C12 as stated: a message counts as recognised with or without the
\* "error: " marker, as in the example of the message "Skipping analyzing
\* 'requests': found module but no type hints or library stubs".
C12_AsStated ==
    ImportsDone =>
        IF \A err \in ImportCoded(strict_errors) : WordingNames(WithoutMarker(err.message)) # {}
        THEN missing_type_hints = Returned(WithoutAncestor(
                 UNION {WordingNames(WithoutMarker(err.message)) :
                            err \in ImportCoded(strict_errors)}))
        ELSE missing_type_hints.raised

\* The recognised wordings as the code takes them: after the "error: "
\* marker, which the message must start with.
MarkedWordingNames(message) ==
    IF StartsWith(message, "error: ") THEN WordingNames(WithoutMarker(message)) ELSE {}

\* C12 (amended): only diagnostics with error code "import" contribute; if
\* every such message starts with "error: " followed by one of the two
\* recognised wordings, the result is the minimal covering set of the quoted
\* names; if some import-coded message does not, the call raises.
C12_ImportHandling ==
    ImportsDone =>
        IF \A err \in ImportCoded(strict_errors) : MarkedWordingNames(err.message) # {}
        THEN missing_type_hints = Returned(WithoutAncestor(
                 UNION {MarkedWordingNames(err.message) : err \in ImportCoded(strict_errors)}))
        ELSE missing_type_hints.raised

\* Two recognised import diagnostics, one under the other's package, and a
\* diagnostic with another code: the covering set of the quoted names.
C12_Witness ==
    /\ ImportsDone
    /\ Len(strict_errors) = 2
    /\ \E i \in 1..2 : strict_errors[i].error_code # "import"
    /\ missing_type_hints = Returned({"requests"})

(***************************************************************************)
(* Properties of module-name validation.                                   *)
(***************************************************************************)
IdentifierChars == "abcdefghijklmnopqrstuvwxyzABCDEFGHIJKLMNOPQRSTUVWXYZ0123456789_"

\* A well-formed dotted identifier: non-empty components of ASCII letters,
\* digits and underscore, separated by single dots.
WellFormedModuleName(name) ==
    LET components == Split(name, ".")
    IN  \A i \in 1..Len(components) :
            /\ Len(components[i]) > 0
            /\ \A k \in 1..Len(components[i]) :
                   Contains(IdentifierChars, CharAt(components[i], k))

\* C13: validate_module_name accepts a string if and only if it is a
\* well-formed dotted identifier (it raises for the empty string, a leading
\* or trailing dot, an empty component and any other character), so every
\* name a block maker renders is well-formed.
C13_ModuleNameValidation ==
    /\ pc_validation \in {"validated", "made"} =>
           (~validation.raised <=> WellFormedModuleName(name_to_validate))
    /\ pc_validation = "made" /\ ~config_block.raised =>
           WellFormedModuleName(name_to_validate)

\* A well-formed name has been validated and rendered in a block.
C13_Witness ==
    /\ pc_validation = "made"
    /\ name_to_validate = "p.1"
    /\ ~validation.raised
    /\ config_block = Returned("\n[mypy-p.1.*]\ndisallow_untyped_defs = False\n")

(***************************************************************************)
(* Properties of the own configuration.                                    *)
(***************************************************************************)
\* The values a dict holds under a key (none, or one).
TableValues(table, key) ==
    {table.table[i][2] : i \in {k \in 1..Len(table.table) : table.table[k][1] = key}}

\* The mypy_global_config sub-tables of the typing_copilot tool table of a
\* parsed TOML mapping: under [tool.typing_copilot], or under the
\* [tool-typing_copilot] of the test.
GlobalConfigTables(content) ==
    UNION {TableValues(copilot, "mypy_global_config") :
               copilot \in TableValues(content, "tool-typing_copilot")
                   \cup UNION {TableValues(tool, "typing_copilot") :
                                   tool \in TableValues(content, "tool")}}

\* C14: for every parsed TOML mapping that contains a typing_copilot tool
\* table with a mypy_global_config sub-table, from_toml returns a
\* TypingCopilotConfig whose mypy_global_config equals that sub-table, scalar
\* and list values preserved.
C14_FromToml ==
    pc_toml = "read" =>
        \A global_config \in GlobalConfigTables(toml_content) :
            own_config = Returned(TypingCopilotConfig(global_config))

\* from_toml has been called on the mapping of the test: warn_unused_ignores
\* and a plugins list under the typing_copilot table.
C14_Witness ==
    /\ pc_toml = "read"
    /\ GlobalConfigTables(toml_content) =
           {TomlTable(<< <<"warn_unused_ignores", TomlBool(TRUE)>>,
                         <<"plugins", TomlList(<<TomlStr("mypy_django_plugin.main")>>)>> >>)}

(***************************************************************************)
(* Properties of the pyproject.toml finder.                                *)
(***************************************************************************)
\* The directory k levels below the root on the way to the resolved search
\* path: the search path itself for k = Len, the root for k = 0.
SearchedDirectory(k) == Path(SubSeq(Resolve(cwd, search_path).parts, 1, k))

HasPyprojectToml(k) == IsFile(file_system, SearchedDirectory(k), "pyproject.toml")

\* The directory is a project root: it holds a .git or .hg directory.
IsProjectRoot(k) ==
    IsDir(file_system, SearchedDirectory(k), ".git")
        \/ IsDir(file_system, SearchedDirectory(k), ".hg")

\* The levels at which the search ends before the root is passed.
EndLevels ==
    {k \in 0..Len(Resolve(cwd, search_path).parts) : HasPyprojectToml(k) \/ IsProjectRoot(k)}

\* C15: the search goes from search_path to its ancestors, nearest first,
\* and returns the pyproject.toml of the first directory that holds one; in
\* each directory the pyproject.toml test precedes the project-root test;
\* the search returns nothing at the first directory that holds a .git or
\* .hg directory but no pyproject.toml, or after the filesystem root.
C15_FindPyprojectToml ==
    pc_finder = "done" =>
        IF EndLevels = {} THEN pyproject_path = Returned(None)
        ELSE LET nearest == MaxOf(EndLevels)
             IN  IF HasPyprojectToml(nearest)
                 THEN pyproject_path =
                          Returned(ChildPath(SearchedDirectory(nearest), "pyproject.toml"))
                 ELSE pyproject_path = Returned(None)

\* The search went up from the working directory and ended in a directory
\* that holds both a pyproject.toml and a .git directory.
C15_Witness ==
    /\ pc_finder = "done"
    /\ search_path = RelativePath(<<>>)
    /\ EndLevels # {}
    /\ MaxOf(EndLevels) < Len(cwd.parts)
    /\ HasPyprojectToml(MaxOf(EndLevels)) /\ IsProjectRoot(MaxOf(EndLevels))
    /\ pyproject_path = Returned(ChildPath(SearchedDirectory(MaxOf(EndLevels)), "pyproject.toml"))

(***************************************************************************)
(* The fault classifier against its reference rule.                        *)
(***************************************************************************)
\* The reference rule: the fallback for a code that is not a key of the
\* table; otherwise the Setting of the first substring of the code's
\* sub-table, in its declared order, that the message contains. The set of
\* the Settings the rule gives: one, or none when no substring is contained.
ReferenceSettings(err) ==
    IF err.error_code \notin DOMAIN _code_and_message_to_error_setting
    THEN {Setting("check_untyped_defs", FALSE)}
    ELSE LET sub_table == _code_and_message_to_error_setting[err.error_code]
             contained == {i \in 1..Len(sub_table) : Contains(err.message, sub_table[i][1])}
         IN  IF contained = {} THEN {}
             ELSE {sub_table[MinOf(contained)][2]}

\* C19: for every diagnostic the classification is the result of the
\* reference rule: the fallback for an unknown code, otherwise the Setting of
\* the first contained substring in declared order ("for one or more
\* arguments" before "missing a type annotation" before the catch-all).
C19_ClassificationReferenceRule ==
    pc_classifier = "classified" =>
        \E setting \in ReferenceSettings(error) : error_setting = Returned(setting)

\* A message that contains both overlapping substrings has been classified
\* by the more specific one.
C19_Witness ==
    /\ pc_classifier = "classified"
    /\ error.error_code = "no-untyped-def"
    /\ Contains(error.message, "error: Function is missing a type annotation for one or more")
    /\ error_setting = Returned(Setting("disallow_incomplete_defs", FALSE))

(***************************************************************************)
(* The sorted pass against the smallest covering subset.                   *)
(***************************************************************************)
\* C covers M: every member of M is in C or has a proper dot-prefix ancestor
\* in C.
Covers(C, M) == \A m \in M : m \in C \/ \E a \in C : IsAncestor(a, m)

\* C20: for every set M the result of _find_minimum_covering_modules is a
\* subset of M, is exactly the set of the members of M without a proper
\* dot-prefix ancestor in M, and no covering subset of M is smaller.
C20_SmallestCoveringSubset ==
    CoveringDone =>
        /\ covering \subseteq module_names
        /\ covering = WithoutAncestor(module_names)
        /\ \A C \in SUBSET module_names :
               Covers(C, module_names) => Cardinality(covering) <= Cardinality(C)

\* A name was left out whose parent is in M but not in the result: only the
\* grandparent, accepted earlier, covers it.
C20_Witness ==
    /\ pc_reducer = "covered"
    /\ \E m \in module_names \ covering :
           /\ Contains(m, ".")
           /\ ParentOf(m) \in module_names \ covering
           /\ \E a \in covering : IsAncestor(a, ParentOf(m))

(***************************************************************************)
(* The commands init and tighten (cli.py:231-309 and 336-426).             *)
(***************************************************************************)
\* The exit status of the process: 1 when an exception ends it.
ExitStatus(exit) == IF exit.raised THEN 1 ELSE exit.value

\* The diagnostics of a completed run, {} when its output is not understood.
ReportedDiagnostics(process) ==
    LET errs == get_mypy_errors_from_completed_process(process.returncode, process.stdout)
    IN  IF errs.raised THEN {} ELSE SetOf(errs.value)

IsUnusedIgnoreDiagnostic(err) ==
    err.error_code = "" /\ Contains(err.message, "unused 'type: ignore' comment")

\* The diagnostics of a run other than those of an unused 'type: ignore'.
OtherDiagnostics(process) ==
    {err \in ReportedDiagnostics(process) : ~IsUnusedIgnoreDiagnostic(err)}

ValidationRan == validation_process # Pending

\* The strict run found errors, so the configuration was built from them.
BuiltFromStrictErrors ==
    /\ cli_strict_errors # Pending
    /\ ~cli_strict_errors.raised
    /\ Len(cli_strict_errors.value) > 0

NothingWritten == writes = <<>> /\ mypy_ini = mypy_ini_at_start

\* The write guard of the validation gate: a validation run that reports a diagnostic
\* other than an unused 'type: ignore' ends the command with an exception
\* and nothing written, and a configuration built from strict-run errors is
\* written only after a validation run that reported no such diagnostic.
ValidationGuardsWrite ==
    /\ ValidationRan /\ OtherDiagnostics(validation_process) # {}
           => cli_exit.raised /\ NothingWritten
    /\ BuiltFromStrictErrors /\ writes # <<>>
           => ValidationRan /\ OtherDiagnostics(validation_process) = {}

\* C16: validation gate of init and tighten. When the validation run reports
\* diagnostics other than unused 'type: ignore' ones, the command ends with
\* an exception that carries exactly those diagnostics and writes nothing;
\* a configuration built from strict-run errors is written only after a
\* validation run without such a diagnostic.
C16_ValidationGate ==
    /\ ValidationGuardsWrite
    /\ ValidationRan /\ OtherDiagnostics(validation_process) # {}
           => cli_exit.diagnostics = OtherDiagnostics(validation_process)

\* The run wrote a configuration to mypy.ini.
Succeeded == writes # <<>>

\* tighten came to compare the tightest configuration with mypy.ini.
TightenCompared ==
    /\ command = "tighten"
    /\ pc_cli = "exited"
    /\ ~cli_exit.raised
    /\ final_config # Pending

NoTighteningNeeded ==
    TightenCompared /\ _are_mypy_configs_equal(mypy_ini_at_start.content, final_config.value)

TighterAvailable ==
    TightenCompared /\ ~_are_mypy_configs_equal(mypy_ini_at_start.content, final_config.value)

RunFoundErrors(errs) == errs # Pending /\ ~errs.raised /\ Len(errs.value) > 0

IsAutogenerated(file) ==
    StartsWith(FirstNonEmptyLine(file.content), AUTOGENERATED_LINE_PREFIX)

\* The validation and user errors the claim lists.
ExistingWithoutOverwrite == command = "init" /\ mypy_ini_at_start # None /\ ~overwrite
ErrorsAtLaxestBaseline == command = "init" /\ RunFoundErrors(first_run_errors)
MissingOrNotAutogenerated ==
    command = "tighten" /\ (mypy_ini_at_start = None \/ ~IsAutogenerated(mypy_ini_at_start))
ErrorsUnderCurrentConfig == command = "tighten" /\ RunFoundErrors(first_run_errors)

\* C17: exit-status convention of init and tighten. A run that has exited
\* has status 0 only if it succeeded or no tightening is needed, and has
\* status 1 whenever tighten --error-if-can-tighten found a tighter
\* configuration or the run stopped on an existing mypy.ini without
\* --overwrite, on checker errors at the laxest baseline, on a missing or
\* non-autogenerated mypy.ini, or on checker errors under the current mypy.ini.
C17_ExitStatusConvention ==
    pc_cli = "exited" =>
        /\ ExitStatus(cli_exit) = 0 => Succeeded \/ NoTighteningNeeded
        /\ \/ TighterAvailable /\ error_if_can_tighten
           \/ ExistingWithoutOverwrite
           \/ ErrorsAtLaxestBaseline
           \/ MissingOrNotAutogenerated
           \/ ErrorsUnderCurrentConfig
           => ExitStatus(cli_exit) = 1

\* C18: tighten with --error-if-can-tighten never writes mypy.ini; when the
\* tightest configuration differs from the current mypy.ini, comments and
\* blank lines ignored, it echoes that configuration and exits 1, and when
\* they are equal it exits 0.
C18_ErrorIfCanTighten ==
    command = "tighten" /\ error_if_can_tighten =>
        /\ NothingWritten
        /\ TighterAvailable => echoed = <<final_config.value>> /\ cli_exit = Returned(1)
        /\ NoTighteningNeeded => echoed = <<>> /\ cli_exit = Returned(0)

\* tighten --error-if-can-tighten found a tighter configuration than the
\* autogenerated mypy.ini it started from.
C18_Witness ==
    /\ command = "tighten"
    /\ error_if_can_tighten
    /\ TighterAvailable
    /\ echoed # <<>>
    /\ mypy_ini_at_start = File(RelaxedConfig)

(***************************************************************************)
(* The passes of the children-collapse (error_tracker.py:150-199).         *)
(***************************************************************************)
PassesDone == pc_passes = "done"
PassesReturned == PassesDone /\ ~pass_outcome.raised

\* C21: termination of the children-collapse. For every input set and every
\* package tree the call ends after finitely many passes, a call that
\* returns does so at a pass that changed nothing, and no pass hands on a
\* set with more members than it was given.
C21_CollapseTermination ==
    /\ <>PassesDone
    /\ [](PassesReturned =>
             /\ pass_outcome.value = pass_names
             /\ CollapsePass(package_tree, pass_names) = pass_names)
    /\ [][Cardinality(pass_names') <= Cardinality(pass_names)]_vars

\* A call that returned after three passes with fewer names than it was given.
C21_Witness ==
    /\ PassesReturned
    /\ pass_count >= 3
    /\ Cardinality(pass_outcome.value) < Cardinality(pass_input)

\* C22: repeated collapse of nested hierarchies. When a pass has replaced the
\* listed children of a package by the package and every direct child of
\* that package's own parent is then in the set, a later pass replaces them
\* by the grandparent: a call never returns a set that holds a replacing
\* package together with all its siblings.
C22_NestedCollapse ==
    PassesReturned =>
        \A parent \in pass_replaced \cap pass_outcome.value :
            Contains(parent, ".") /\ ParentOf(parent) \in package_tree.packages
                => ~(DirectChildren(package_tree, ParentOf(parent))
                         \subseteq pass_outcome.value)

\* A run of mypy of a kind was made by the command.
RunStarted(kind) == \E i \in 1..Len(mypy_runs) : mypy_runs[i].kind = kind

\* The command goes on to no strict run: none was made, and it is not on its
\* way to one.
NoStrictRun ==
    /\ ~RunStarted("strict")
    /\ ~RunStarted("validation")
    /\ pc_cli \notin {"strict", "validation"}
    /\ cli_strict_errors = Pending

\* C23: no write on a failed precondition. init leaves an existing mypy.ini
\* unchanged and exits 1 when --overwrite is not set, and leaves it unchanged
\* when the laxest baseline run reports errors; tighten leaves mypy.ini
\* unchanged and exits 1 when the file is missing, when its first non-empty
\* line does not start with the autogenerated marker, or when the checker
\* reports errors under the current mypy.ini. In each of these cases no
\* strict run is started.
C23_NoWriteOnFailedPrecondition ==
    /\ ExistingWithoutOverwrite \/ ErrorsAtLaxestBaseline
           \/ MissingOrNotAutogenerated \/ ErrorsUnderCurrentConfig
       => NothingWritten /\ NoStrictRun
    /\ pc_cli = "exited"
           /\ (ExistingWithoutOverwrite \/ MissingOrNotAutogenerated
                   \/ ErrorsUnderCurrentConfig)
       => cli_exit = Returned(1)
    /\ ExistingWithoutOverwrite \/ MissingOrNotAutogenerated => mypy_runs = <<>>

\* tighten has ended on errors under an autogenerated mypy.ini, after the one
\* run of mypy with it.
C23_Witness ==
    /\ pc_cli = "exited"
    /\ ErrorsUnderCurrentConfig
    /\ IsAutogenerated(mypy_ini_at_start)
    /\ Len(mypy_runs) = 1
    /\ mypy_runs[1] = MypyRun("current", mypy_ini.content)
    /\ cli_exit = Returned(1)


\* The places of the lines of a config that stand in its global section,
\* before the first per-module block.
GlobalLinePlaces(lines) ==
    {i \in 1..Len(lines) : \A j \in 1..i : ~StartsWith(lines[j], "[mypy-")}

\* The global section of a config sets warn_unused_ignores to a value, and
\* to no other.
SetsUnusedIgnores(config, setting) ==
    LET Sets(lines) ==
            /\ \E i \in GlobalLinePlaces(lines) :
                   lines[i] = "warn_unused_ignores = " \o BoolStr(setting)
            /\ \A i \in GlobalLinePlaces(lines) :
                   lines[i] # "warn_unused_ignores = " \o BoolStr(~setting)
    IN  Only({Sets(lines) : lines \in {Split(config, "\n")}})

\* A config is, line for line, another one with the global setting
\* warn_unused_ignores = True turned to False.
IdenticalButUnusedIgnores(written, validated) ==
    LET Same(w, v) ==
            /\ Len(w) = Len(v)
            /\ \A i \in 1..Len(v) :
                   \/ w[i] = v[i] /\ ~StartsWith(v[i], "warn_unused_ignores = ")
                   \/ w[i] = v[i] /\ i \notin GlobalLinePlaces(v)
                   \/ /\ i \in GlobalLinePlaces(v)
                      /\ v[i] = "warn_unused_ignores = True"
                      /\ w[i] = "warn_unused_ignores = False"
    IN  Only({Same(pair[1], pair[2]) :
              pair \in {<<Split(written, "\n"), Split(validated, "\n")>>}})

\* The validation run reported unused 'type: ignore' diagnostics, and nothing else.
OnlyUnusedIgnoresReported ==
    /\ ReportedDiagnostics(validation_process) # {}
    /\ OtherDiagnostics(validation_process) = {}

\* The command came to its final configuration after a validation run.
FinalAfterValidation ==
    pc_cli = "exited" /\ ValidationRan /\ ~cli_exit.raised

\* C25: special handling of the unused-ignore setting. The strict run is
\* always made with warn_unused_ignores = False; the configuration generated
\* from strict-run errors and sent to validation has warn_unused_ignores =
\* True; the final configuration has warn_unused_ignores = False if and
\* only if the validation run reported at least one unused 'type: ignore'
\* diagnostic (and nothing else), and is then otherwise identical to the
\* validated configuration and written without a further run of mypy.
C25_UnusedIgnoreHandling ==
    /\ \A i \in 1..Len(mypy_runs) :
           /\ mypy_runs[i].kind = "strict" => SetsUnusedIgnores(mypy_runs[i].config, FALSE)
           /\ mypy_runs[i].kind = "validation" =>
                  /\ SetsUnusedIgnores(mypy_runs[i].config, TRUE)
                  /\ BuiltFromStrictErrors
                  /\ i = Len(mypy_runs)
    /\ FinalAfterValidation =>
           /\ mypy_runs[Len(mypy_runs)].kind = "validation"
           /\ \A i \in 1..Len(writes) : writes[i] = final_config.value
           /\ SetsUnusedIgnores(final_config.value, FALSE) <=> OnlyUnusedIgnoresReported
           /\ SetsUnusedIgnores(final_config.value, TRUE) <=> ~OnlyUnusedIgnoresReported
           /\ OnlyUnusedIgnoresReported =>
                  IdenticalButUnusedIgnores(final_config.value,
                                            mypy_runs[Len(mypy_runs)].config)
           /\ ~OnlyUnusedIgnoresReported =>
                  final_config.value = mypy_runs[Len(mypy_runs)].config

\* init wrote, after a validation run that reported an unused 'type: ignore'
\* only, a configuration with a per-module block and warn_unused_ignores = False.
C25_Witness ==
    /\ command = "init"
    /\ FinalAfterValidation
    /\ OnlyUnusedIgnoresReported
    /\ Len(writes) = 1
    /\ mypy_ini = File(final_config.value)
    /\ SetsUnusedIgnores(mypy_ini.content, FALSE)
    /\ Contains(mypy_ini.content, "[mypy-")
    /\ Len(mypy_runs) = 3

\* The second command has ended.
RerunEnded == command_number = 2 /\ pc_cli = "exited"

\* C24: re-running on an unchanged codebase is a no-op. If the checker
\* returns the same output for the same configuration, tighten run on the
\* mypy.ini that init or a previous tighten wrote computes a configuration
\* that _are_mypy_configs_equal judges equal to the file, and exits 0
\* without rewriting mypy.ini.
C24_RerunIsNoOp ==
    RerunEnded =>
        /\ final_config # Pending
        /\ _are_mypy_configs_equal(mypy_ini_at_start.content, final_config.value)
        /\ cli_exit = Returned(0)
        /\ NothingWritten
        /\ echoed = <<>>

\* The module of every error of the strict run is the same whatever the
\* order in which known_python_extensions is gone through.
StrictErrorsOrderFree ==
    /\ cli_strict_errors # Pending
    /\ ~cli_strict_errors.raised
    /\ \A i \in 1..Len(cli_strict_errors.value) :
           Cardinality({_get_module_for_error(cli_strict_errors.value[i], order) :
                        order \in ExtensionOrders}) = 1

\* Re-running is a no-op when no path of a strict-run error ends in two of
\* the known extensions.
RerunIsNoOpOnOrderFreeErrors ==
    RerunEnded /\ StrictErrorsOrderFree =>
        /\ _are_mypy_configs_equal(mypy_ini_at_start.content, final_config.value)
        /\ cli_exit = Returned(0)
        /\ NothingWritten

=============================================================================
